---------------------------- MODULE Spec2Model ----------------------------
(***************************************************************************)
(* Crowd-movement engine of path-planning/mercurial: the Scene (agent      *)
(* arrays, cells, retirement, callbacks), the graph planner, the local     *)
(* detour planner and the per-tick update.                                 *)
(*                                                                         *)
(* Lengths are fixed-point integers in thousandths of a domain unit, so    *)
(* 0.7 is 700 and a 10 x 10 domain is 10000 x 10000.  Square roots are     *)
(* rounded down to the thousandth.                                         *)
(***************************************************************************)
EXTENDS Integers, Sequences, FiniteSets, TLC

(***************************************************************************)
(* Program constants (thousandths of a domain unit where they are lengths) *)
(***************************************************************************)
NumberOfCells == 20
MinimalDistance == 700
MdeEps == 1
DtDen == 20
Margin == 1000
SafeDistance == 3000
MaxSpeed == 5000
\* pi in microradians
Pi == 3141593

(***************************************************************************)
(* Bounds of the model                                                     *)
(***************************************************************************)
MaxAgents == 2
MaxTicks == 3
MaxCallbacks == 1
MaxSubGoals == 4

(***************************************************************************)
(* Integer helpers                                                         *)
(***************************************************************************)
Abs(v) == IF v < 0 THEN -v ELSE v

Sign(v) == IF v > 0 THEN 1 ELSE IF v < 0 THEN -1 ELSE 0

Min2(a, b) == IF a <= b THEN a ELSE b

Max2(a, b) == IF a >= b THEN a ELSE b

RECURSIVE SqrtBetween(_, _, _)
SqrtBetween(n, lo, hi) ==
    IF lo >= hi THEN lo
    ELSE LET mid == (lo + hi + 1) \div 2
         IN  IF mid * mid <= n THEN SqrtBetween(n, mid, hi)
             ELSE SqrtBetween(n, lo, mid - 1)

\* floor of the square root, n < 2^31
ISqrt(n) == SqrtBetween(n, 0, 46340)

\* division rounding toward zero, as a float product or quotient cut to the thousandth
DivT(a, b) == IF (a >= 0) = (b > 0) THEN Abs(a) \div Abs(b) ELSE -(Abs(a) \div Abs(b))

RECURSIVE SumSeq(_)
SumSeq(s) == IF s = <<>> THEN 0 ELSE s[1] + SumSeq(Tail(s))

(***************************************************************************)
(* Geometry kernel: Coordinate, Interval, LineSegment                      *)
(***************************************************************************)
PAdd(p, q) == <<p[1] + q[1], p[2] + q[2]>>

PSub(p, q) == <<p[1] - q[1], p[2] - q[2]>>

PScale(p, k) == <<p[1] * k, p[2] * k>>

Norm(p) == ISqrt(p[1] * p[1] + p[2] * p[2])

LineSegment(b, e) == [begin |-> b, end |-> e]

SegLength(seg) == Norm(PSub(seg.begin, seg.end))

IntervalContains(ivBegin, ivEnd, item) == ivBegin <= item /\ item <= ivEnd

(***************************************************************************)
(* Obstacles and the exit                                                  *)
(***************************************************************************)
Obstacle(name, begin, size) ==
    [name |-> name, begin |-> begin, size |-> size, end |-> PAdd(begin, size),
     permeable |-> FALSE, in_interior |-> TRUE,
     corner_list |-> << <<begin[1], begin[2]>>,
                        <<begin[1], begin[2] + size[2]>>,
                        <<begin[1] + size[1], begin[2]>>,
                        <<begin[1] + size[1], begin[2] + size[2]>> >>,
     margin_list |-> << <<-Margin, -Margin>>, <<-Margin, Margin>>,
                        <<Margin, -Margin>>, <<Margin, Margin>> >>,
     center |-> <<begin[1] + size[1] \div 2, begin[2] + size[2] \div 2>>]

Exit(name, begin, size) ==
    [Obstacle(name, begin, size) EXCEPT
        !.permeable = TRUE, !.in_interior = FALSE,
        !.margin_list = << <<0, 0>>, <<0, 0>>, <<0, 0>>, <<0, 0>> >>]

\* Obstacle.__contains__: the closed rectangle
InObstacle(coord, obs) ==
    \A dim \in 1..2 : obs.begin[dim] <= coord[dim] /\ coord[dim] <= obs.begin[dim] + obs.size[dim]

(***************************************************************************)
(* functions.rectangles_intersect and functions.get_hyperplane_function    *)
(* are not among the source files; they follow the description of the      *)
(* two-phase test.                                                         *)
(***************************************************************************)
rectangles_intersect(start1, end1, start2, end2, open_sets) ==
    IF open_sets
    THEN ~(\E dim \in 1..2 : end1[dim] <= start2[dim] \/ end2[dim] <= start1[dim])
    ELSE ~(\E dim \in 1..2 : end1[dim] < start2[dim] \/ end2[dim] < start1[dim])

\* the two-point line equation through a and b, evaluated at p
get_hyperplane_function(a, b, p) ==
    (b[2] - a[2]) * (p[1] - a[1]) - (b[1] - a[1]) * (p[2] - a[2])

\* the test of the bounding box of the segment against the obstacle's rectangle
BoundingBoxesIntersect(seg, obs, open_sets) ==
    LET rect0 == <<Min2(seg.begin[1], seg.end[1]), Min2(seg.begin[2], seg.end[2])>>
        rect1 == <<Max2(seg.begin[1], seg.end[1]), Max2(seg.begin[2], seg.end[2])>>
    IN  rectangles_intersect(rect0, rect1, obs.begin, obs.end, open_sets)

\* the side of the segment's line each corner of the obstacle lies on
CornerSigns(seg, obs) ==
    [k \in 1..4 |-> Sign(get_hyperplane_function(seg.begin, seg.end, obs.corner_list[k]))]

\* a test that sees no crossing anywhere: paths then run through obstacles
never_crosses(seg, obs, open_sets) == FALSE

\* a test that stops after the bounding boxes
crosses_by_box(seg, obs, open_sets) == BoundingBoxesIntersect(seg, obs, open_sets)

\* a test that takes a sign sum of 0 for corners on one side
crosses_unless_sum_zero(seg, obs, open_sets) ==
    IF ~BoundingBoxesIntersect(seg, obs, open_sets) THEN FALSE
    ELSE IF SumSeq(CornerSigns(seg, obs)) \in {-4, 0, 4} THEN FALSE
    ELSE TRUE

\* a test that sees no crossing only when the corners lie left of the directed line
crosses_unless_all_left(seg, obs, open_sets) ==
    IF ~BoundingBoxesIntersect(seg, obs, open_sets) THEN FALSE
    ELSE IF SumSeq(CornerSigns(seg, obs)) = 4 THEN FALSE
    ELSE TRUE

crosses_obstacle(seg, obs, open_sets) ==
    IF ~BoundingBoxesIntersect(seg, obs, open_sets) THEN FALSE
    ELSE IF SumSeq(CornerSigns(seg, obs)) \in {-4, 4} THEN FALSE
    ELSE TRUE

\* Planner.get_goal: the projection of position on the obstacle's rectangle
\* a projection that takes the lower bound whenever the coordinate is outside
goal_dim_begin(position, obs, dim) ==
    IF IntervalContains(obs.begin[dim], obs.end[dim], position[dim]) THEN position[dim]
    ELSE obs.begin[dim]

goal_dim(position, obs, dim) ==
    IF IntervalContains(obs.begin[dim], obs.end[dim], position[dim]) THEN position[dim]
    ELSE IF position[dim] < obs.begin[dim] THEN obs.begin[dim]
    ELSE obs.end[dim]

get_goal(position, obs) == <<goal_dim(position, obs, 1), goal_dim(position, obs, 2)>>

(***************************************************************************)
(* Path: a list of LineSegments                                            *)
(***************************************************************************)
\* Path._check_connectivity (np.allclose; the model's coordinates are exact)
Connected(ls1, ls2) == ls1.end = ls2.begin

\* a Path under construction: its list, and whether every check passed so far
NewPath == [ok |-> TRUE, list |-> <<>>]

\* Path.append(LineSegment): the AssertionError of a segment that does not connect
\* leaves the list as it was
PathAppend(path, seg) ==
    IF ~path.ok THEN path
    ELSE IF path.list # <<>> /\ ~Connected(path.list[Len(path.list)], seg)
         THEN [path EXCEPT !.ok = FALSE]
         ELSE [path EXCEPT !.list = Append(@, seg)]

\* Path.__iadd__, the method behind path += other: whether the check passed, the
\* list of the object afterwards, and what the method returns, which is what the
\* name on the left of += is bound to afterwards
PathIadd(path, other) ==
    IF ~path.ok THEN [ok |-> FALSE, list |-> path.list, returns |-> "raised"]
    ELSE IF path.list # <<>> /\ ~Connected(path.list[Len(path.list)], other[1])
         THEN [ok |-> FALSE, list |-> path.list, returns |-> "raised"]
         ELSE [ok |-> TRUE, list |-> path.list \o other, returns |-> "None"]

\* a pop that hands out the first segment and drops the second: the remaining path
\* is then no longer contiguous
pop_second_segment(list) ==
    [segment |-> Head(list),
     rest |-> IF Len(list) >= 2 THEN <<list[1]>> \o SubSeq(list, 3, Len(list))
              ELSE Tail(list)]

\* Path.pop_next_segment: list.pop(0)
pop_next_segment(list) == [segment |-> Head(list), rest |-> Tail(list)]

(***************************************************************************)
(* GraphPlanner: the visibility graph (networkx.Graph)                     *)
(***************************************************************************)
PointNode(p) == [exit |-> FALSE, at |-> p]

\* the node that is the exit obstacle itself
ExitNode == [exit |-> TRUE, at |-> <<0, 0>>]

EmptyGraph == [nodes |-> {}, edges |-> {}]

AddNode(graph, n) == [graph EXCEPT !.nodes = @ \cup {n}]

\* nx.Graph.add_edge for a set of edges: an edge that exists gets the new weight
AddEdges(graph, new) ==
    [nodes |-> graph.nodes \cup UNION {x.e : x \in new},
     edges |-> {x \in graph.edges : \A y \in new : y.e # x.e} \cup new]

\* no interior obstacle is crossed (open-set test)
PathFree(seg, obstacle_list) ==
    ~(\E k \in 1..Len(obstacle_list) :
        obstacle_list[k].in_interior /\ crosses_obstacle(seg, obstacle_list[k], TRUE))

_fill_with_required_edges(node, graph, goal_obstacle, obstacle_list) ==
    LET line_to_goal == LineSegment(node.at, get_goal(node.at, goal_obstacle))
        toGoal == IF PathFree(line_to_goal, obstacle_list)
                  THEN {[e |-> {node, ExitNode}, w |-> SegLength(line_to_goal)]}
                  ELSE {}
        toOthers == {[e |-> {node, other}, w |-> SegLength(LineSegment(node.at, other.at))] :
                        other \in {o \in graph.nodes :
                                     /\ o # node
                                     /\ o # ExitNode
                                     /\ PathFree(LineSegment(node.at, o.at), obstacle_list)}}
    IN  AddEdges(AddEdges(graph, toGoal), toOthers)

\* the inflated corners of the interior, non-permeable obstacles that pass the bound test
CornerNodes(obstacle_list, size) ==
    {PointNode(PAdd(obstacle_list[k].corner_list[c], obstacle_list[k].margin_list[c])) :
        <<k, c>> \in {kc \in (1..Len(obstacle_list)) \X (1..4) :
            /\ obstacle_list[kc[1]].in_interior
            /\ ~obstacle_list[kc[1]].permeable
            /\ LET point == PAdd(obstacle_list[kc[1]].corner_list[kc[2]],
                                 obstacle_list[kc[1]].margin_list[kc[2]])
               IN  point[1] < size[1] /\ point[2] < size[2]}}

RECURSIVE FillNodes(_, _, _, _)
FillNodes(todo, graph, goal_obstacle, obstacle_list) ==
    IF todo = {} THEN graph
    ELSE LET node == CHOOSE n \in todo : TRUE
         IN  CHOOSE r \in {FillNodes(todo \ {node}, g, goal_obstacle, obstacle_list) :
                             g \in {_fill_with_required_edges(node, graph, goal_obstacle,
                                                              obstacle_list)}} : TRUE

_create_obstacle_graph(goal_obstacle, obstacle_list, size) ==
    LET nodes == CornerNodes(obstacle_list, size)
    IN  FillNodes(nodes, [nodes |-> {ExitNode} \cup nodes, edges |-> {}],
                  goal_obstacle, obstacle_list)

(***************************************************************************)
(* networkx.astar_path with the default (zero) heuristic: a path of least  *)
(* total weight; which of several such paths is returned is left open.     *)
(* (x \in {e} binds x to the value of e, which is then computed once.)      *)
(***************************************************************************)
Neighbours(graph, u) == {v \in graph.nodes : v # u /\ \E x \in graph.edges : x.e = {u, v}}

\* a weight that counts hops: the search then returns a route of fewest edges
UnitWeight(graph, u, v) == 1

EdgeWeight(graph, u, v) == (CHOOSE x \in graph.edges : x.e = {u, v}).w

SetMin(S) == CHOOSE m \in S : \A o \in S : m <= o

\* one round of relaxation; -1 stands for "not reached"
RelaxOnce(graph, d) ==
    [v \in graph.nodes |->
        LET cands == (IF d[v] >= 0 THEN {d[v]} ELSE {}) \cup
                     {d[u] + EdgeWeight(graph, u, v) :
                        u \in {n \in Neighbours(graph, v) : d[n] >= 0}}
        IN  IF cands = {} THEN -1 ELSE SetMin(cands)]

RECURSIVE Relax(_, _, _)
Relax(graph, d, rounds) ==
    IF rounds = 0 THEN d
    ELSE CHOOSE r \in {Relax(graph, dd, rounds - 1) : dd \in {RelaxOnce(graph, d)}} : TRUE

Distances(graph, source) ==
    Relax(graph, [v \in graph.nodes |-> IF v = source THEN 0 ELSE -1],
          Cardinality(graph.nodes))

RECURSIVE PathsTo(_, _, _, _, _)
PathsTo(graph, d, source, v, fuel) ==
    IF v = source THEN {<<source>>}
    ELSE IF fuel = 0 THEN {}
    ELSE UNION {{Append(p, v) : p \in PathsTo(graph, d, source, u, fuel - 1)} :
                  u \in {n \in Neighbours(graph, v) :
                           d[n] >= 0 /\ d[n] + EdgeWeight(graph, n, v) = d[v]}}

\* a search that answers a missing route with the direct hop instead of NetworkXNoPath
astar_path_or_direct(graph, source, target) ==
    UNION {IF d[target] < 0 THEN {<<source, target>>}
           ELSE PathsTo(graph, d, source, target, Cardinality(graph.nodes)) :
           d \in {Distances(graph, source)}}

\* the node lists astar_path may return; empty: NetworkXNoPath
astar_path(graph, source, target) ==
    UNION {IF d[target] < 0 THEN {}
           ELSE PathsTo(graph, d, source, target, Cardinality(graph.nodes)) :
           d \in {Distances(graph, source)}}

\* the Path built from a node list: hops between the points, then the hop to the
\* projection of the last point on the exit
RECURSIVE HopsFrom(_, _, _)
HopsFrom(prev_point, points, path_to_exit) ==
    IF points = <<>> THEN path_to_exit
    ELSE HopsFrom(points[1], Tail(points),
                  PathAppend(path_to_exit, LineSegment(prev_point, points[1])))

LastPoint(nodes) == nodes[Len(nodes) - 1].at

PathFromNodes(nodes, goal_obstacle) ==
    LET inner == [k \in 1..(Len(nodes) - 2) |-> nodes[k + 1].at]
        hops == HopsFrom(nodes[1].at, inner, NewPath)
        prev_point == LastPoint(nodes)
        finish_point == get_goal(prev_point, goal_obstacle)
    IN  PathAppend(hops, LineSegment(prev_point, finish_point))

\* GraphPlanner.create_path: the Paths it may return; empty: RuntimeError (no route)
GraphCreatePath(position, graph, goal_obstacle, obstacle_list) ==
    UNION {{PathFromNodes(nodes, goal_obstacle) :
               nodes \in astar_path(ped_graph, PointNode(position), ExitNode)} :
           ped_graph \in {_fill_with_required_edges(PointNode(position),
                              AddNode(graph, PointNode(position)), goal_obstacle,
                              obstacle_list)}}

(***************************************************************************)
(* Coordinate.angle: math.atan2 in microradians, by CORDIC vectoring       *)
(* (16 rotations by atan(2^-i)), exact on the axes and the diagonals.      *)
(***************************************************************************)
AtanTable == <<785398, 463648, 244979, 124355, 62419, 31240, 15624, 7812,
               3906, 1953, 977, 488, 244, 122, 61, 31>>

RECURSIVE Cordic(_, _, _, _)
Cordic(x, y, z, i) ==
    IF i > 15 \/ y = 0 THEN z
    ELSE CHOOSE r \in
            {Cordic(n[1], n[2], n[3], i + 1) :
               n \in {IF y > 0
                      THEN <<x + y \div (2 ^ i), y - x \div (2 ^ i), z + AtanTable[i + 1]>>
                      ELSE <<x - y \div (2 ^ i), y + x \div (2 ^ i), z - AtanTable[i + 1]>>}} :
            TRUE

\* atan(y / x) for x > 0, y > 0
AtanQ1(y, x) ==
    IF x = y THEN Pi \div 4
    ELSE IF y > x THEN Pi \div 2 - Cordic(y * 16384, x * 16384, 0, 0)
    ELSE Cordic(x * 16384, y * 16384, 0, 0)

Atan2(y, x) ==
    IF y = 0 THEN (IF x >= 0 THEN 0 ELSE Pi)
    ELSE IF x = 0 THEN Sign(y) * (Pi \div 2)
    ELSE IF x > 0 THEN Sign(y) * AtanQ1(Abs(y), x)
    ELSE Sign(y) * (Pi - AtanQ1(Abs(y), -x))

Angle(p) == Atan2(p[2], p[1])

(***************************************************************************)
(* Planner: the local detour heuristic                                     *)
(***************************************************************************)
\* Obstacle.corner_info_list is not among the source files: each corner with the
\* (x, y) in {0, 1} x {0, 1} it was built from
corner_info_list(obs) ==
    [k \in 1..4 |-> [corner |-> obs.corner_list[k],
                     location |-> << <<0, 0>>, <<0, 1>>, <<1, 0>>, <<1, 1>> >>[k]]]

\* all corners of the colliding obstacles, in the order of the two loops
RECURSIVE CornersOf(_)
CornersOf(obstacles) ==
    IF obstacles = <<>> THEN <<>>
    ELSE corner_info_list(obstacles[1]) \o CornersOf(Tail(obstacles))

\* the loop body: acc is [max_angles, corner_points]; 1 is Left, 2 is Right;
\* a corner_point with location <<-1, -1>> is None
NoCorner == [corner |-> <<0, 0>>, location |-> <<-1, -1>>]

ScanCorner(acc, info, start, angle_to_goal) ==
    LET raw == Angle(PSub(info.corner, start)) - angle_to_goal
        angle_to_corner == IF raw < -Pi THEN raw + 2 * Pi ELSE raw
        direction == IF angle_to_corner < 0 THEN 2 ELSE 1
    IN  IF Abs(acc.max_angles[direction]) <= Abs(angle_to_corner)
        THEN [max_angles |-> [acc.max_angles EXCEPT ![direction] = angle_to_corner],
              corner_points |-> [acc.corner_points EXCEPT ![direction] = info]]
        ELSE acc

RECURSIVE ScanCorners(_, _, _, _)
ScanCorners(acc, infos, start, angle_to_goal) ==
    IF infos = <<>> THEN acc
    ELSE CHOOSE r \in {ScanCorners(a, Tail(infos), start, angle_to_goal) :
                         a \in {ScanCorner(acc, infos[1], start, angle_to_goal)}} : TRUE

\* Planner.get_intermediate_goal: [ok, point]; ok is FALSE for the TypeError of a
\* side without a corner
get_intermediate_goal(start, angle_to_goal, obstacles) ==
    LET acc == ScanCorners([max_angles |-> <<0, 0>>, corner_points |-> <<NoCorner, NoCorner>>],
                           CornersOf(obstacles), start, angle_to_goal)
        best_direction == IF acc.max_angles[1] >= -acc.max_angles[2] THEN 2 ELSE 1
        best == acc.corner_points[best_direction]
        obstacle_repulsion == <<Sign(2 * best.location[1] - 1), Sign(2 * best.location[2] - 1)>>
    IN  IF best = NoCorner THEN [ok |-> FALSE, point |-> <<0, 0>>]
        ELSE [ok |-> TRUE, point |-> PAdd(best.corner, PScale(obstacle_repulsion, SafeDistance))]

\* the interior obstacles the line crosses (closed-set test), in list order
CollidingObstacles(line, obstacle_list) ==
    SelectSeq(obstacle_list, LAMBDA o : o.in_interior /\ crosses_obstacle(line, o, FALSE))

\* Planner.create_path: [outcome, path]; outcome "path", "TypeError", "AssertionError",
\* or "running" when the loop has not ended after fuel sub-goals
RECURSIVE LocalCreateFrom(_, _, _, _, _)
LocalCreateFrom(sub_start, path_to_exit, goal_obstacle, obstacle_list, fuel) ==
    IF ~path_to_exit.ok THEN [outcome |-> "AssertionError", path |-> path_to_exit]
    ELSE IF InObstacle(sub_start, goal_obstacle) THEN [outcome |-> "path", path |-> path_to_exit]
    ELSE IF fuel = 0 THEN [outcome |-> "running", path |-> path_to_exit]
    ELSE LET goal == get_goal(sub_start, goal_obstacle)
             line_to_goal == LineSegment(sub_start, goal)
             angle_to_goal == Angle(PSub(goal, sub_start))
             colliding_obstacles == CollidingObstacles(line_to_goal, obstacle_list)
             inter == get_intermediate_goal(sub_start, angle_to_goal, colliding_obstacles)
         IN  IF colliding_obstacles # <<>> /\ ~inter.ok
             THEN [outcome |-> "TypeError", path |-> path_to_exit]
             ELSE CHOOSE r \in
                    {LocalCreateFrom(sub_finish,
                                     PathAppend(path_to_exit, LineSegment(sub_start, sub_finish)),
                                     goal_obstacle, obstacle_list, fuel - 1) :
                       sub_finish \in {IF colliding_obstacles # <<>> THEN inter.point
                                       ELSE goal}} : TRUE

LocalCreatePath(position, goal_obstacle, obstacle_list) ==
    LocalCreateFrom(position, NewPath, goal_obstacle, obstacle_list, MaxSubGoals)

(***************************************************************************)
(* Inputs: the domain, the obstacle configuration files, the places the    *)
(* random spawn may pick, the callbacks a driver registers                 *)
(***************************************************************************)
SceneSize == <<10000, 10000>>

\* an obstacle file: records of name, begin and size (already scaled by the domain
\* size), and the spawn positions tried with it
Layouts ==
    { [name |-> "open", obstacles |-> <<>>,
       exits |-> << [name |-> "exit", begin |-> <<9000, 4500>>, size |-> <<0, 1000>>] >>,
       spawn |-> { << <<8600, 5000>>, <<8700, 5200>>, <<8650, 4800>>, <<8500, 5000>> >>,
                   << <<8700, 5200>>, <<8600, 5000>>, <<1000, 1000>>, <<8650, 4800>> >>,
                   << <<10, 6010>>, <<20, 6010>> >> }],
      [name |-> "block",
       obstacles |-> << [name |-> "block", begin |-> <<4000, 4000>>, size |-> <<2000, 2000>>] >>,
       exits |-> << [name |-> "exit", begin |-> <<9000, 4500>>, size |-> <<0, 1000>>] >>,
       spawn |-> { << <<1000, 5000>>, <<1200, 5300>>, <<1000, 4700>>, <<3000, 5000>> >>,
                   << <<1200, 5300>>, <<1000, 5000>>, <<7000, 5000>>, <<1000, 4700>> >> }],
      [name |-> "wall",
       obstacles |-> << [name |-> "wall", begin |-> <<4000, 0>>, size |-> <<2000, 10000>>] >>,
       exits |-> << [name |-> "exit", begin |-> <<9000, 4500>>, size |-> <<0, 1000>>] >>,
       spawn |-> { << <<3400, 300>>, <<3000, 5000>>, <<3400, 9700>>, <<1000, 1000>> >> }],
      [name |-> "pocket",
       obstacles |-> << [name |-> "block", begin |-> <<4000, 4000>>, size |-> <<2000, 2000>>],
                        [name |-> "bar", begin |-> <<3400, 3050>>, size |-> <<200, 650>>] >>,
       exits |-> << [name |-> "exit", begin |-> <<9000, 4500>>, size |-> <<0, 1000>>] >>,
       spawn |-> { << <<3000, 3600>> >> }],
      [name |-> "buried",
       obstacles |-> << [name |-> "lid", begin |-> <<8000, 4000>>, size |-> <<2000, 2000>>] >>,
       exits |-> << [name |-> "exit", begin |-> <<9000, 4500>>, size |-> <<0, 1000>>] >>,
       spawn |-> { << <<1000, 5000>>, <<1200, 5300>>, <<1000, 4700>>, <<3000, 5000>> >> }],
      [name |-> "no_exit", obstacles |-> <<>>, exits |-> <<>>,
       spawn |-> { << <<1000, 5000>>, <<1200, 5300>>, <<1000, 4700>>, <<3000, 5000>> >> }],
      [name |-> "two_exits", obstacles |-> <<>>,
       exits |-> << [name |-> "exit", begin |-> <<9000, 4500>>, size |-> <<0, 1000>>],
                    [name |-> "exit2", begin |-> <<0, 4500>>, size |-> <<0, 1000>>] >>,
       spawn |-> { << <<1000, 5000>>, <<1200, 5300>>, <<1000, 4700>>, <<3000, 5000>> >> }] }

ExitFns == {"log_exit"}

FinishFns == {"write_results"}

(***************************************************************************)
(* Scene                                                                   *)
(***************************************************************************)
VARIABLES
    pc,                 \* "start", "constructed", "planned" or the way it ended
    err,                \* the exception that ended construction, planning or a tick
    planner,            \* "none", "graph" (GraphPlanner) or "local" (Planner)
    obstacle_file,      \* the name of the obstacle file the Scene was given
    cell_dict,          \* Scene.cell_dict without the pedestrian sets (those are cell_sets)
    cells_stored,       \* construction has written cell_dict to the file cells.bin
    pedestrian_number, mde, obstacle_list, exit_obs,
    position_array, last_position_array, velocity_array, pedestrian_cells, alive_array,
    pedestrian_list,    \* entry i: [counter, index, empty]; empty marks an EmptyPedestrian
    cell_sets,          \* the pairs <<cell location, counter>>: the cells' pedestrian_set
    ped_cell,           \* Pedestrian.cell, as the cell's location
    origin,             \* Pedestrian.origin
    ped_path,           \* Pedestrian.path: the remaining segments
    ped_line,           \* Pedestrian.line: <<>> before planning, else <<segment>>
    planned_path,       \* history: the Path create_path returned
    graph,              \* GraphPlanner.graph
    status, time,
    on_pedestrian_exit_functions, on_finish_functions,
    exit_calls,         \* history: the calls made to exit callbacks
    finish_calls,       \* history: the calls made to finish callbacks
    finished,           \* the driver has called finish()
    call                \* the last direct call of a function: its arguments and result

vars == <<pc, err, planner, obstacle_file, cell_dict, cells_stored, pedestrian_number, mde, obstacle_list, exit_obs,
          position_array, last_position_array, velocity_array, pedestrian_cells,
          alive_array, pedestrian_list, cell_sets, ped_cell, origin, ped_path, ped_line,
          planned_path, graph, status, time, on_pedestrian_exit_functions,
          on_finish_functions, exit_calls, finish_calls, finished, call>>

sceneArrays == <<position_array, last_position_array, velocity_array, pedestrian_cells>>

sceneConfig == <<pedestrian_number, mde, obstacle_list, exit_obs>>

callbackLists == <<on_pedestrian_exit_functions, on_finish_functions>>

plans == <<ped_path, ped_line, planned_path, graph, planner>>

\* what construction reads and leaves behind
startup == <<obstacle_file, cell_dict, cells_stored>>

Agents == 1..pedestrian_number

\* index i of the model is index i - 1 of the Python lists and arrays
NoObstacle == Exit("", <<0, 0>>, <<0, 0>>)

NoCall == [fn |-> "none"]

\* self.cell_dict = {}
NoCells == [number_of_cells |-> <<0, 0>>, cell_size |-> <<0, 0>>, obstacle_set |-> <<>>]

ProgramInit ==
    /\ pc = "start" /\ err = "none" /\ planner = "none"
    /\ obstacle_file = "" /\ cell_dict = NoCells /\ cells_stored = FALSE
    /\ pedestrian_number = 0 /\ mde = TRUE /\ obstacle_list = <<>> /\ exit_obs = NoObstacle
    /\ position_array = <<>> /\ last_position_array = <<>> /\ velocity_array = <<>>
    /\ pedestrian_cells = <<>> /\ alive_array = <<>> /\ pedestrian_list = <<>>
    /\ cell_sets = {} /\ ped_cell = <<>> /\ origin = <<>>
    /\ ped_path = <<>> /\ ped_line = <<>> /\ planned_path = <<>>
    /\ graph = EmptyGraph
    /\ status = "none" /\ time = 0
    /\ on_pedestrian_exit_functions = <<>> /\ on_finish_functions = <<>>
    /\ exit_calls = <<>> /\ finish_calls = <<>> /\ finished = FALSE

Init == ProgramInit /\ call = NoCall

(***************************************************************************)
(* Scene._read_json_file                                                   *)
(***************************************************************************)
\* a size of 0 becomes one domain unit
ExitSize(size) == <<IF size[1] = 0 THEN 1000 ELSE size[1], IF size[2] = 0 THEN 1000 ELSE size[2]>>

ReadObstacles(layout) ==
    [k \in 1..Len(layout.obstacles) |->
        Obstacle(layout.obstacles[k].name, layout.obstacles[k].begin, layout.obstacles[k].size)]

ReadExits(layout) ==
    [k \in 1..Len(layout.exits) |->
        Exit(layout.exits[k].name, layout.exits[k].begin, ExitSize(layout.exits[k].size))]

\* a reader that only refuses a file without exits
ReadErrorWhenNoExit(layout) ==
    IF Len(layout.exits) = 0 THEN "AttributeError" ELSE "none"

\* "none", or the exception the exit count raises
ReadError(layout) ==
    IF Len(layout.exits) = 0 THEN "AttributeError"
    ELSE IF Len(layout.exits) > 1 THEN "NotImplementedError"
    ELSE "none"

(***************************************************************************)
(* Accessibility and cells                                                 *)
(***************************************************************************)
is_within_boundaries(coord) ==
    /\ 0 < coord[1] /\ 0 < coord[2]
    /\ coord[1] < SceneSize[1] /\ coord[2] < SceneSize[2]

is_accessible(coord, obstacles, at_start) ==
    IF ~is_within_boundaries(coord) THEN FALSE
    ELSE IF at_start
         THEN \A k \in 1..Len(obstacles) : ~InObstacle(coord, obstacles[k])
         ELSE \A k \in 1..Len(obstacles) :
                 ~InObstacle(coord, obstacles[k]) \/ obstacles[k].permeable

CellSize == <<SceneSize[1] \div NumberOfCells, SceneSize[2] \div NumberOfCells>>

\* np.floor(position / cell_size)
CellOf(position) == <<position[1] \div CellSize[1], position[2] \div CellSize[2]>>

get_pedestrian_cells(positions) == [i \in DOMAIN positions |-> CellOf(positions[i])]

InCellDict(location) ==
    /\ location[1] \in 0..(NumberOfCells - 1)
    /\ location[2] \in 0..(NumberOfCells - 1)

\* Cell.add_pedestrian and Cell.remove_pedestrian: [ok, sets]; ok is FALSE when the
\* assertion fails
add_pedestrian(sets, location, counter) ==
    IF <<location, counter>> \in sets THEN [ok |-> FALSE, sets |-> sets]
    ELSE [ok |-> TRUE, sets |-> sets \cup {<<location, counter>>}]

\* a removal that leaves the agent in the cell's set
KeepInCell(sets, location, counter) == [ok |-> TRUE, sets |-> sets]

remove_pedestrian_from_cell(sets, location, counter) ==
    IF <<location, counter>> \notin sets THEN [ok |-> FALSE, sets |-> sets]
    ELSE [ok |-> TRUE, sets |-> sets \ {<<location, counter>>}]

(***************************************************************************)
(* The cells and their cache.  A cell dictionary is [number_of_cells,      *)
(* cell_size, obstacle_set]: the keys are the locations below              *)
(* number_of_cells, every cell has size cell_size, and obstacle_set maps   *)
(* every obstacle that is in the obstacle_set of some cell to the          *)
(* locations of the cells that hold it.  A pickled obstacle is its name,   *)
(* begin and size.                                                         *)
(***************************************************************************)
Cell(row, column, begin, size) ==
    [location |-> <<row, column>>, begin |-> begin, size |-> size,
     center |-> <<begin[1] + size[1] \div 2, begin[2] + size[2] \div 2>>]

\* Cell.__contains__: the closed rectangle
InCell(coord, cell) ==
    \A dim \in 1..2 :
        cell.begin[dim] <= coord[dim] /\ coord[dim] <= cell.begin[dim] + cell.size[dim]

\* the four edges of the cell, as obtain_relevant_obstacles builds them
CellEdges(cell) ==
    LET corner_points == << cell.begin,
                            <<cell.begin[1], cell.begin[2] + cell.size[2]>>,
                            <<cell.begin[1] + cell.size[1], cell.begin[2] + cell.size[2]>>,
                            <<cell.begin[1] + cell.size[1], cell.begin[2]>> >>
    IN  {LineSegment(corner_points[i], corner_points[IF i = 1 THEN 4 ELSE i - 1]) : i \in 1..4}

\* Cell.obtain_relevant_obstacles: the indices of the obstacles it adds
obtain_relevant_obstacles(cell, obstacles) ==
    {k \in 1..Len(obstacles) :
        \/ InCell(obstacles[k].center, cell)
        \/ InObstacle(cell.center, obstacles[k])
        \/ \E edge \in CellEdges(cell) : crosses_obstacle(edge, obstacles[k], FALSE)}

Pickled(obstacle) == [name |-> obstacle.name, begin |-> obstacle.begin, size |-> obstacle.size]

CellLocations(number_of_cells) ==
    (0..(number_of_cells[1] - 1)) \X (0..(number_of_cells[2] - 1))

_create_cells(number_of_cells, cell_size, obstacles) ==
    [number_of_cells |-> number_of_cells,
     cell_size |-> cell_size,
     obstacle_set |->
        LET relevant == [location \in CellLocations(number_of_cells) |->
                            obtain_relevant_obstacles(
                                Cell(location[1], location[2],
                                     <<cell_size[1] * location[1], cell_size[2] * location[2]>>,
                                     cell_size),
                                obstacles)]
            held == {k \in 1..Len(obstacles) : \E location \in DOMAIN relevant :
                                                   k \in relevant[location]}
        IN  [obstacle \in {Pickled(obstacles[k]) : k \in held} |->
                {location \in DOMAIN relevant :
                    \E k \in relevant[location] : Pickled(obstacles[k]) = obstacle}]]

\* cell_location is the key that set(self.cell_dict).pop() yields
_validate_cells(cells, cell_location, obstacles) ==
    LET correct_index == \A dim \in 1..2 : cell_location[dim] < NumberOfCells
        correct_size == cells.cell_size = CellSize
        correct_obstacle ==
            {obstacles[k].name : k \in 1..Len(obstacles)}
                = {obstacle.name : obstacle \in DOMAIN cells.obstacle_set}
    IN  correct_index /\ correct_size /\ correct_obstacle

\* Scene._load_cells on the content of cells.bin (<<>> when there is no file): the
\* dictionary in use and whether it was stored in the file, for every key the
\* validation may poll
_load_cells(file, obstacles) ==
    UNION {{IF file # <<>> /\ _validate_cells(file[1], cell_location, obstacles)
            THEN [cell_dict |-> file[1], stored |-> FALSE]
            ELSE [cell_dict |-> new_cells, stored |-> TRUE] :
               cell_location \in IF file = <<>> THEN CellLocations(new_cells.number_of_cells)
                                 ELSE CellLocations(file[1].number_of_cells)} :
           new_cells \in {_create_cells(<<NumberOfCells, NumberOfCells>>, CellSize,
                                        obstacles)}}

\* the obstacles of an earlier run after which they were resized: the same names,
\* half the sizes
Resized(obstacles) ==
    [k \in 1..Len(obstacles) |->
        IF obstacles[k].permeable THEN obstacles[k]
        ELSE Obstacle(obstacles[k].name, obstacles[k].begin,
                      <<obstacles[k].size[1] \div 2, obstacles[k].size[2] \div 2>>)]

\* the obstacle file of the earlier run that left cells.bin behind
EarlierLayout == CHOOSE layout \in Layouts : layout.name = "buried"

\* what cells.bin may hold when the Scene is constructed: nothing, or the cells an
\* earlier run stored, for the obstacles of EarlierLayout as they are now, as they
\* were before they were resized, or for a coarser grid
CellFiles ==
    {<<>>}
    \cup {<<_create_cells(<<NumberOfCells, NumberOfCells>>, CellSize, earlier)>> :
             earlier \in {ReadObstacles(EarlierLayout) \o ReadExits(EarlierLayout),
                          Resized(ReadObstacles(EarlierLayout) \o ReadExits(EarlierLayout))}}
    \cup {<<_create_cells(<<NumberOfCells \div 2, NumberOfCells \div 2>>,
                          <<2 * CellSize[1], 2 * CellSize[2]>>,
                          ReadObstacles(EarlierLayout) \o ReadExits(EarlierLayout))>>}

(***************************************************************************)
(* Scene.__init__, with _init_pedestrians and _fill_cells                  *)
(***************************************************************************)
NewPedestrian(counter) == [counter |-> counter, index |-> counter, empty |-> FALSE]

ZeroArray(n) == [i \in 1..n |-> <<0, 0>>]

SceneInit ==
    /\ pc = "start"
    /\ \E layout \in Layouts, n \in 0..MaxAgents, enforce \in BOOLEAN :
         IF ReadError(layout) # "none"
         THEN /\ pc' = "config_error"
              /\ obstacle_file' = layout.name
              /\ UNCHANGED <<cell_dict, cells_stored>>
              /\ err' = ReadError(layout)
              /\ UNCHANGED <<planner, sceneConfig, sceneArrays, alive_array, pedestrian_list,
                             cell_sets, ped_cell, origin, plans, status, time, callbackLists,
                             exit_calls, finish_calls, finished, call>>
         ELSE \E obstacles \in {ReadObstacles(layout) \o ReadExits(layout)} :
              \E file \in CellFiles :
              \E loaded \in _load_cells(file, obstacles) :
              \E spawn \in {SubSeq(draws, 1, n) : draws \in {d \in layout.spawn : n <= Len(d)}} :
                /\ \A i \in 1..n : is_accessible(spawn[i], obstacles, TRUE)
                /\ pc' = "constructed"
                /\ obstacle_file' = layout.name
                /\ cell_dict' = loaded.cell_dict
                /\ cells_stored' = loaded.stored
                /\ pedestrian_number' = n
                /\ mde' = enforce
                /\ obstacle_list' = obstacles
                /\ exit_obs' = ReadExits(layout)[1]
                /\ position_array' = spawn
                /\ last_position_array' = ZeroArray(n)
                /\ velocity_array' = ZeroArray(n)
                /\ alive_array' = [i \in 1..n |-> 1]
                /\ pedestrian_list' = [i \in 1..n |-> NewPedestrian(i)]
                /\ pedestrian_cells' = get_pedestrian_cells(spawn)
                /\ cell_sets' = {<<CellOf(spawn[i]), i>> : i \in 1..n}
                /\ ped_cell' = [i \in 1..n |-> CellOf(spawn[i])]
                /\ origin' = spawn
                /\ ped_path' = [i \in 1..n |-> <<>>]
                /\ ped_line' = [i \in 1..n |-> <<>>]
                /\ planned_path' = [i \in 1..n |-> <<>>]
                /\ status' = "RUNNING"
                /\ UNCHANGED <<err, planner, graph, time, callbackLists, exit_calls,
                               finish_calls, finished, call>>

(***************************************************************************)
(* Scene.set_on_pedestrian_exit_functions, Scene.set_on_finish_functions   *)
(***************************************************************************)
SetOnPedestrianExitFunctions ==
    /\ pc \in {"constructed", "planned"}
    /\ time = 0 /\ ~finished
    /\ Len(on_pedestrian_exit_functions) < MaxCallbacks
    /\ \E f \in ExitFns :
         on_pedestrian_exit_functions' = Append(on_pedestrian_exit_functions, f)
    /\ UNCHANGED <<pc, err, sceneConfig, sceneArrays, alive_array, pedestrian_list, cell_sets,
                   ped_cell, origin, plans, status, time, on_finish_functions, exit_calls,
                   finish_calls, finished, call, startup>>

SetOnFinishFunctions ==
    /\ pc \in {"constructed", "planned"}
    /\ time = 0 /\ ~finished
    /\ Len(on_finish_functions) < MaxCallbacks
    /\ \E f \in FinishFns : on_finish_functions' = Append(on_finish_functions, f)
    /\ UNCHANGED <<pc, err, sceneConfig, sceneArrays, alive_array, pedestrian_list, cell_sets,
                   ped_cell, origin, plans, status, time, on_pedestrian_exit_functions,
                   exit_calls, finish_calls, finished, call, startup>>

(***************************************************************************)
(* Velocity                                                                *)
(***************************************************************************)
\* Velocity.rescale: is_zero is norm < EPS, here a norm below one thousandth
Rescale(v, max_speed) ==
    IF Norm(v) = 0 THEN v
    ELSE <<DivT(v[1] * max_speed, Norm(v)), DivT(v[2] * max_speed, Norm(v))>>

\* Pedestrian.velocity setter: a Velocity is always truthy (it has length 2)
SetVelocity(velocities, index, value) ==
    [velocities EXCEPT ![index] = Rescale(value, MaxSpeed)]

(***************************************************************************)
(* GraphPlanner.__init__ and Planner.__init__                              *)
(***************************************************************************)
\* the loop over pedestrian_list of both constructors, for the agents 1..upto:
\* path, line after pop_next_segment
AssignPaths(chosen, upto) ==
    /\ planned_path' = [i \in Agents |-> IF i <= upto THEN chosen[i] ELSE planned_path[i]]
    /\ ped_line' = [i \in Agents |->
                      IF i <= upto THEN <<pop_next_segment(chosen[i]).segment>>
                      ELSE ped_line[i]]
    /\ ped_path' = [i \in Agents |->
                      IF i <= upto THEN pop_next_segment(chosen[i]).rest ELSE ped_path[i]]

RECURSIVE SetVelocities(_, _, _, _)
SetVelocities(velocities, lines, positions, upto) ==
    IF upto = 0 THEN velocities
    ELSE SetVelocity(SetVelocities(velocities, lines, positions, upto - 1), upto,
                     PSub(lines[upto][1].end, positions[upto]))

\* a query that works on the planner's graph itself
QueryOnSharedGraph(shared, ped_graph) == ped_graph

\* ped_graph = nx.Graph(self.graph) is a copy: what create_path adds to ped_graph is
\* not added to self.graph
GraphAfterQuery(shared, ped_graph) == shared

\* self.graph after the calls of create_path for the agents 1..upto
RECURSIVE SharedGraphAfter(_, _, _, _, _)
SharedGraphAfter(g, positions, upto, goal_obstacle, obstacles) ==
    IF upto = 0 THEN g
    ELSE CHOOSE after \in
            {GraphAfterQuery(shared,
                 _fill_with_required_edges(PointNode(positions[upto]),
                     AddNode(shared, PointNode(positions[upto])), goal_obstacle, obstacles)) :
               shared \in {SharedGraphAfter(g, positions, upto - 1, goal_obstacle,
                                            obstacles)}} : TRUE

GraphPlannerInit ==
    /\ pc = "constructed"
    /\ \E g \in {_create_obstacle_graph(exit_obs, obstacle_list, SceneSize)} :
       \E options \in {[i \in Agents |->
                          GraphCreatePath(position_array[i],
                                          SharedGraphAfter(g, position_array, i - 1, exit_obs,
                                                           obstacle_list),
                                          exit_obs, obstacle_list)]} :
         LET failing == {i \in Agents : options[i] = {} \/ \E q \in options[i] : ~q.ok}
             upto == IF failing = {} THEN pedestrian_number ELSE SetMin(failing) - 1
         IN  /\ graph' = SharedGraphAfter(g, position_array,
                                          IF failing = {} THEN upto ELSE upto + 1, exit_obs,
                                          obstacle_list)
             /\ planner' = "graph"
             /\ \E chosen \in [1..upto -> UNION {{q.list : q \in options[i]} : i \in 1..upto}] :
                  /\ \A i \in 1..upto : \E q \in options[i] : q.list = chosen[i]
                  /\ AssignPaths(chosen, upto)
                  /\ velocity_array' = SetVelocities(velocity_array, ped_line', position_array,
                                                     upto)
             /\ IF failing = {}
                THEN pc' = "planned" /\ err' = err
                ELSE /\ pc' = "plan_failed"
                     /\ err' = IF options[SetMin(failing)] = {} THEN "RuntimeError"
                               ELSE "AssertionError"
    /\ UNCHANGED <<sceneConfig, position_array, last_position_array, pedestrian_cells,
                   alive_array, pedestrian_list, cell_sets, ped_cell, origin, status, time,
                   callbackLists, exit_calls, finish_calls, finished, call, startup>>

\* Planner.__init__ sets no velocity
PlannerInit ==
    /\ pc = "constructed"
    /\ \E results \in {[i \in Agents |->
                          LocalCreatePath(position_array[i], exit_obs, obstacle_list)]} :
         LET failing == {i \in Agents : results[i].outcome # "path" \/ results[i].path.list = <<>>}
             upto == IF failing = {} THEN pedestrian_number ELSE SetMin(failing) - 1
         IN  /\ planner' = "local"
             /\ AssignPaths([i \in 1..upto |-> results[i].path.list], upto)
             /\ IF failing = {}
                THEN pc' = "planned" /\ err' = err
                ELSE LET outcome == results[SetMin(failing)].outcome
                     IN  IF outcome = "running"
                         THEN pc' = "planning_forever" /\ err' = err
                         ELSE /\ pc' = "plan_failed"
                              /\ err' = IF outcome = "path" THEN "IndexError" ELSE outcome
    /\ UNCHANGED <<sceneConfig, sceneArrays, alive_array, pedestrian_list, cell_sets, ped_cell,
                   origin, graph, status, time, callbackLists, exit_calls, finish_calls,
                   finished, call, startup>>

(***************************************************************************)
(* Scene.move_pedestrians: the vectorized move, minimum distance           *)
(* enforcement, update_cells                                               *)
(***************************************************************************)
\* position_array += velocity_array * dt, for every index
MovePositions(positions, velocities) ==
    [i \in DOMAIN positions |->
        PAdd(positions[i], <<DivT(velocities[i][1], DtDen), DivT(velocities[i][2], DtDen)>>)]

\* the pairs of all agents that some cell holds, whether or not it is the same cell
AllPairs(sets) == {ab \in {m[2] : m \in sets} \X {m[2] : m \in sets} : ab[1] < ab[2]}

\* itertools.combinations over each cell's pedestrian_set; the correction of a pair is
\* antisymmetric, so the order inside a pair is immaterial
MdePairs(sets) == {ab \in {m[2] : m \in sets} \X {m[2] : m \in sets} :
                     /\ ab[1] < ab[2]
                     /\ \E location \in {m[1] : m \in sets} :
                          <<location, ab[1]>> \in sets /\ <<location, ab[2]>> \in sets}

\* (min_distance / (distance + 0.001) - 1) * difference / 2 for a pair closer than
\* min_distance, else nothing
MdeCorrection(position_a, position_b, min_distance) ==
    LET difference == PSub(position_a, position_b)
        distance == Norm(difference)
    IN  IF distance < min_distance
        THEN <<DivT(difference[1] * (min_distance - distance - MdeEps),
                    2 * (distance + MdeEps)),
               DivT(difference[2] * (min_distance - distance - MdeEps),
                    2 * (distance + MdeEps))>>
        ELSE <<0, 0>>

\* corrections that push only the first agent of a pair
RECURSIVE SumPushes(_, _, _, _)
SumPushes(pairs, positions, index, min_distance) ==
    IF pairs = {} THEN <<0, 0>>
    ELSE LET pair == CHOOSE ab \in pairs : TRUE
             c == MdeCorrection(positions[pair[1]], positions[pair[2]], min_distance)
             mine == IF pair[1] = index THEN c ELSE <<0, 0>>
         IN  PAdd(mine, SumPushes(pairs \ {pair}, positions, index, min_distance))

RECURSIVE SumCorrections(_, _, _, _)
SumCorrections(pairs, positions, index, min_distance) ==
    IF pairs = {} THEN <<0, 0>>
    ELSE LET pair == CHOOSE ab \in pairs : TRUE
             c == MdeCorrection(positions[pair[1]], positions[pair[2]], min_distance)
             mine == IF pair[1] = index THEN c
                     ELSE IF pair[2] = index THEN <<-c[1], -c[2]>>
                     ELSE <<0, 0>>
         IN  PAdd(mine, SumCorrections(pairs \ {pair}, positions, index, min_distance))

\* an enforcement that pairs the agents by the cell of their position, whether or
\* not a cell holds them
EnforceByPosition(positions, sets, min_distance) ==
    [i \in DOMAIN positions |->
        PAdd(positions[i],
             SumCorrections(MdePairs({<<CellOf(positions[k]), k>> : k \in DOMAIN positions}),
                            positions, i, min_distance))]

_minimum_distance_enforcement(positions, sets, min_distance) ==
    [i \in DOMAIN positions |->
        PAdd(positions[i], SumCorrections(MdePairs(sets), positions, i, min_distance))]

\* an update that removes the agent from the cell at its last location, not from the
\* cell its back-reference names
UpdateCellByLastLocation(acc, index, old_cells, new_cells, alive) ==
    IF ~acc.ok \/ alive[index] = 0 \/ old_cells[index] = new_cells[index] THEN acc
    ELSE IF ~InCellDict(new_cells[index]) THEN acc
    ELSE LET removed == remove_pedestrian_from_cell(acc.sets, old_cells[index], index)
             added == add_pedestrian(removed.sets, new_cells[index], index)
         IN  IF ~removed.ok THEN [acc EXCEPT !.ok = FALSE]
             ELSE IF ~added.ok THEN [acc EXCEPT !.ok = FALSE, !.sets = removed.sets]
             ELSE [ok |-> TRUE, sets |-> added.sets,
                   cells |-> [acc.cells EXCEPT ![index] = new_cells[index]]]

\* an update that leaves alone an agent whose last cell location was off the grid
UpdateCellFromGrid(acc, index, old_cells, new_cells, alive) ==
    IF ~acc.ok \/ alive[index] = 0 \/ old_cells[index] = new_cells[index] THEN acc
    ELSE IF ~InCellDict(new_cells[index]) \/ ~InCellDict(old_cells[index]) THEN acc
    ELSE LET removed == remove_pedestrian_from_cell(acc.sets, acc.cells[index], index)
             added == add_pedestrian(removed.sets, new_cells[index], index)
         IN  IF ~removed.ok THEN [acc EXCEPT !.ok = FALSE]
             ELSE IF ~added.ok THEN [acc EXCEPT !.ok = FALSE, !.sets = removed.sets]
             ELSE [ok |-> TRUE, sets |-> added.sets,
                   cells |-> [acc.cells EXCEPT ![index] = new_cells[index]]]

\* Scene.update_cells, one index of its loop; acc is [ok, sets, cells]
UpdateCell(acc, index, old_cells, new_cells, alive) ==
    IF ~acc.ok \/ alive[index] = 0 \/ old_cells[index] = new_cells[index] THEN acc
    ELSE IF ~InCellDict(new_cells[index]) THEN acc
    ELSE LET removed == remove_pedestrian_from_cell(acc.sets, acc.cells[index], index)
             added == add_pedestrian(removed.sets, new_cells[index], index)
         IN  IF ~removed.ok THEN [acc EXCEPT !.ok = FALSE]
             ELSE IF ~added.ok THEN [acc EXCEPT !.ok = FALSE, !.sets = removed.sets]
             ELSE [ok |-> TRUE, sets |-> added.sets,
                   cells |-> [acc.cells EXCEPT ![index] = new_cells[index]]]

RECURSIVE UpdateCellsUpTo(_, _, _, _, _)
UpdateCellsUpTo(acc, upto, old_cells, new_cells, alive) ==
    IF upto = 0 THEN acc
    ELSE CHOOSE r \in {UpdateCell(a, upto, old_cells, new_cells, alive) :
                         a \in {UpdateCellsUpTo(acc, upto - 1, old_cells, new_cells, alive)}} :
                TRUE

update_cells(sets, cells, old_cells, positions, alive) ==
    UpdateCellsUpTo([ok |-> TRUE, sets |-> sets, cells |-> cells], Len(positions),
                    old_cells, get_pedestrian_cells(positions), alive)

(***************************************************************************)
(* Pedestrian                                                              *)
(***************************************************************************)
\* Pedestrian.move_to_position: the position after the call, and the value returned
move_to_position(position, target, dt_reach, obstacles) ==
    LET distance == PSub(target, position)
        within == distance[1] * distance[1] + distance[2] * distance[2] < dt_reach * dt_reach
    IN  [position |-> IF within /\ is_accessible(target, obstacles, FALSE)
                      THEN target ELSE position,
         reached |-> FALSE]

\* Pedestrian.update_position is not among the source files: the tick has moved every
\* agent in move_pedestrians already, and this call moves it no further
update_position(position) == position

\* Pedestrian.is_done is not among the source files: the path has no further segments
is_done(path) == path = <<>>

\* EmptyPedestrian is not among the source files: the placeholder keeps the index, and
\* has zero velocity
EmptyPedestrian(counter) == [counter |-> counter, index |-> counter, empty |-> TRUE]

PlaceholderVelocity(velocities, counter) == [velocities EXCEPT ![counter] = <<0, 0>>]

(***************************************************************************)
(* Scene.remove_pedestrian, on a record st of the fields it and the        *)
(* planner's update read and write                                         *)
(***************************************************************************)
\* a retirement that deletes the list entry, shifting the later ones
DeleteEntry(list, counter) ==
    SubSeq(list, 1, counter - 1) \o SubSeq(list, counter + 1, Len(list))

ReplaceByEmpty(list, counter) == [list EXCEPT ![counter] = EmptyPedestrian(counter)]

\* a clearing of one flag that sets the flags of all others
ClearAliveSetOthers(alive, counter) ==
    [i \in DOMAIN alive |-> IF i = counter THEN 0 ELSE 1]

ClearAlive(alive, counter) == [alive EXCEPT ![counter] = 0]

\* a loop that calls every exit callback twice
ExitCallbackCallsTwice(functions, pedestrian, alive) ==
    [k \in 1..(2 * Len(functions)) |->
        [function |-> functions[(k + 1) \div 2], pedestrian |-> pedestrian, alive |-> alive]]

\* the calls of the loop over on_pedestrian_exit_functions; alive is the flag of the
\* pedestrian when the call is made
ExitCallbackCalls(functions, pedestrian, alive) ==
    [k \in 1..Len(functions) |->
        [function |-> functions[k], pedestrian |-> pedestrian, alive |-> alive]]

\* a retirement that leaves the status as it was
StatusKept(status_before, alive) == status_before

StatusAfterRemove(status_before, alive) ==
    IF SumSeq(alive) = 0 THEN "DONE" ELSE status_before

remove_pedestrian(st, counter) ==
    IF ~st.ok THEN st
    ELSE IF st.list[counter].empty THEN [st EXCEPT !.ok = FALSE]
    ELSE LET removed == remove_pedestrian_from_cell(st.sets, st.cells[counter], counter)
             alive == ClearAlive(st.alive, counter)
         IN  IF ~removed.ok THEN [st EXCEPT !.ok = FALSE]
             ELSE [st EXCEPT
                     !.sets = removed.sets,
                     !.list = ReplaceByEmpty(st.list, counter),
                     !.velocities = PlaceholderVelocity(st.velocities, counter),
                     !.alive = alive,
                     !.calls = st.calls \o ExitCallbackCalls(on_pedestrian_exit_functions,
                                                             st.list[counter], alive[counter]),
                     !.status = StatusAfterRemove(st.status, alive)]

SceneRecord ==
    [ok |-> TRUE, positions |-> position_array, velocities |-> velocity_array,
     alive |-> alive_array, list |-> pedestrian_list, sets |-> cell_sets, cells |-> ped_cell,
     paths |-> ped_path, lines |-> ped_line, calls |-> exit_calls, status |-> status]

StoreRecord(st) ==
    /\ position_array' = st.positions
    /\ velocity_array' = st.velocities
    /\ alive_array' = st.alive
    /\ pedestrian_list' = st.list
    /\ cell_sets' = st.sets
    /\ ped_cell' = st.cells
    /\ ped_path' = st.paths
    /\ ped_line' = st.lines
    /\ exit_calls' = st.calls
    /\ status' = st.status

\* a driver retires the pedestrian object with this counter
RemovePedestrian(counter) ==
    /\ pc = "planned"
    /\ ~finished
    /\ ~pedestrian_list[counter].empty
    /\ \E st \in {remove_pedestrian(SceneRecord, counter)} :
         /\ StoreRecord(st)
         /\ IF st.ok THEN pc' = pc /\ err' = err
            ELSE pc' = "crashed" /\ err' = "AssertionError"
    /\ UNCHANGED <<planner, sceneConfig, last_position_array, pedestrian_cells, origin,
                   planned_path, graph, time, callbackLists, finish_calls, finished, call, startup>>

(***************************************************************************)
(* Planner.collective_update: one tick                                     *)
(***************************************************************************)
\* a loop body that drops what is left of the path of an agent standing at the end of
\* its segment
UpdateDroppingPath(st, counter) ==
    IF ~st.ok \/ st.alive[counter] = 0 THEN st
    ELSE LET moved == move_to_position(update_position(st.positions[counter]),
                                       st.lines[counter][1].end,
                                       MaxSpeed \div DtDen, obstacle_list)
         IN  [st EXCEPT !.positions[counter] = moved.position,
                        !.paths[counter] = IF moved.position = st.lines[counter][1].end
                                           THEN <<>> ELSE st.paths[counter]]

\* the body of the loop for one pedestrian
UpdatePedestrian(st, counter) ==
    IF ~st.ok \/ st.alive[counter] = 0 THEN st
    ELSE LET moved == move_to_position(update_position(st.positions[counter]),
                                       st.lines[counter][1].end,
                                       MaxSpeed \div DtDen, obstacle_list)
             at == [st EXCEPT !.positions[counter] = moved.position]
         IN  IF ~moved.reached THEN at
             ELSE IF is_done(at.paths[counter]) THEN remove_pedestrian(at, counter)
             ELSE LET next == pop_next_segment(at.paths[counter])
                  IN  [at EXCEPT
                         !.lines[counter] = <<next.segment>>,
                         !.paths[counter] = next.rest,
                         !.velocities = SetVelocity(at.velocities, counter,
                                            PSub(next.segment.end, at.positions[counter]))]

RECURSIVE UpdatePedestriansUpTo(_, _)
UpdatePedestriansUpTo(st, upto) ==
    IF upto = 0 THEN st
    ELSE CHOOSE r \in {UpdatePedestrian(s, upto) : s \in {UpdatePedestriansUpTo(st, upto - 1)}} :
                TRUE

CollectiveUpdate ==
    /\ pc = "planned"
    /\ ~finished
    /\ time < MaxTicks
    /\ time' = time + 1
    /\ last_position_array' = position_array
    /\ \E moved \in {MovePositions(position_array, velocity_array)} :
       \E enforced \in {IF mde THEN _minimum_distance_enforcement(moved, cell_sets,
                                                                   MinimalDistance)
                        ELSE moved} :
       \E updated \in {update_cells(cell_sets, ped_cell, pedestrian_cells, enforced,
                                    alive_array)} :
         IF ~updated.ok
         THEN /\ pc' = "crashed" /\ err' = "AssertionError"
              /\ StoreRecord([SceneRecord EXCEPT !.positions = enforced,
                                                 !.sets = updated.sets, !.cells = updated.cells])
              /\ UNCHANGED pedestrian_cells
         ELSE \E st \in {UpdatePedestriansUpTo(
                            [SceneRecord EXCEPT !.positions = enforced, !.sets = updated.sets,
                                                !.cells = updated.cells],
                            pedestrian_number)} :
                /\ pedestrian_cells' = get_pedestrian_cells(enforced)
                /\ StoreRecord(st)
                /\ IF st.ok THEN pc' = pc /\ err' = err
                   ELSE pc' = "crashed" /\ err' = "AssertionError"
    /\ UNCHANGED <<planner, sceneConfig, origin, planned_path, graph, callbackLists,
                   finish_calls, finished, call, startup>>

(***************************************************************************)
(* Scene.finish, called once by the driver                                 *)
(***************************************************************************)
Finish ==
    /\ pc = "planned"
    /\ ~finished
    /\ finished' = TRUE
    /\ finish_calls' = finish_calls \o on_finish_functions
    /\ UNCHANGED <<pc, err, planner, sceneConfig, sceneArrays, alive_array, pedestrian_list,
                   cell_sets, ped_cell, origin, ped_path, ped_line, planned_path, graph, status,
                   time, callbackLists, exit_calls, call, startup>>

Next ==
    \/ SceneInit
    \/ SetOnPedestrianExitFunctions
    \/ SetOnFinishFunctions
    \/ GraphPlannerInit
    \/ PlannerInit
    \/ CollectiveUpdate
    \/ \E counter \in Agents : RemovePedestrian(counter)
    \/ Finish

Spec == Init /\ [][Next]_vars

(***************************************************************************)
(* Direct calls of the geometric functions, as the unit tests make them:   *)
(* arguments from small sets, the result kept in call                      *)
(***************************************************************************)
GridMax == 6

MaxCrowd == 3

MaxPathLen == 2

programVars == <<pc, err, planner, obstacle_file, cell_dict,
                 cells_stored, pedestrian_number, mde, obstacle_list, exit_obs,
                 position_array, last_position_array, velocity_array, pedestrian_cells,
                 alive_array, pedestrian_list, cell_sets, ped_cell, origin, ped_path,
                 ped_line, planned_path, graph, status, time, on_pedestrian_exit_functions,
                 on_finish_functions, exit_calls, finish_calls, finished>>

GridPoints == (0..GridMax) \X (0..GridMax)

\* a square, a wider rectangle with grid points in its interior, and the rectangle
\* [10, 20] x [5, 15]
GridObstacles == {Obstacle("square", <<2, 2>>, <<2, 2>>),
                  Obstacle("slab", <<1, 2>>, <<4, 3>>)}

GoalObstacles == GridObstacles \cup {Obstacle("far", <<10, 5>>, <<10, 10>>)}

GoalPoints == GridPoints \cup {<<25, 2>>, <<12, 9>>, <<10, 30>>}

\* positions of a crowd: four in one cell, one in the next cell
CrowdPoints == {<<100, 100>>, <<300, 100>>, <<100, 400>>, <<450, 450>>, <<600, 100>>}

\* end points of the segments of a Path
PathPoints == {<<0, 0>>, <<1000, 0>>, <<1000, 1000>>}

\* the segments between consecutive points
SegmentsThrough(points) ==
    [k \in 1..(Len(points) - 1) |-> LineSegment(points[k], points[k + 1])]

\* the lists a Path can hold: up to MaxPathLen segments, each beginning where the
\* one before it ends
PathLists ==
    UNION {{SegmentsThrough(points) : points \in [1..n -> PathPoints]} :
              n \in 1..(MaxPathLen + 1)}

\* the exit the local heuristic plans for, and the obstacles around it: none, one block
\* in the way, a block over the exit, two blocks, a ledge whose corner is on the bearing
LocalExit == Exit("exit", <<9000, 4500>>, ExitSize(<<0, 1000>>))

LocalObstacleLists ==
    { <<>>,
      << Obstacle("block", <<4000, 4000>>, <<2000, 2000>>) >>,
      << Obstacle("lid", <<8000, 4000>>, <<2000, 2000>>) >>,
      << Obstacle("north", <<1000, 5000>>, <<1000, 3000>>),
         Obstacle("south", <<5000, 1000>>, <<1000, 3000>>) >>,
      << Obstacle("ledge", <<0, 1000>>, <<2000, 1000>>) >> }

LocalStarts == {<<500, 500>>, <<1000, 500>>, <<500, 5000>>, <<3000, 5000>>, <<4500, 8500>>}

\* a start outside the exit and outside every obstacle
LocalRequests(fn) ==
    {[fn |-> fn, applied |-> FALSE, start |-> start, obstacles |-> obstacles] :
        <<start, obstacles>> \in
            {so \in LocalStarts \X LocalObstacleLists :
                /\ ~InObstacle(so[1], LocalExit)
                /\ \A k \in 1..Len(so[2]) : ~InObstacle(so[1], so[2][k])}}

\* the calls to make: the function and its arguments
CallRequests ==
    LocalRequests("Planner.create_path") \cup LocalRequests("get_intermediate_goal") \cup
    {[fn |-> "crosses_obstacle", applied |-> FALSE,
      seg |-> LineSegment(begin, end), obs |-> obs, open_sets |-> open_sets] :
        begin \in GridPoints, end \in GridPoints, obs \in GridObstacles, open_sets \in BOOLEAN}
    \cup {[fn |-> "get_goal", applied |-> FALSE, position |-> position, obs |-> obs] :
             position \in GoalPoints, obs \in GoalObstacles}
    \cup UNION {{[fn |-> "_minimum_distance_enforcement", applied |-> FALSE,
                  positions |-> positions] : positions \in [1..n -> CrowdPoints]} :
                  n \in 2..MaxCrowd}
    \cup {[fn |-> "Path.append", applied |-> FALSE, list |-> list,
           other |-> <<LineSegment(begin, end)>>] :
             list \in PathLists, begin \in PathPoints, end \in PathPoints}
    \cup {[fn |-> "Path.__iadd__", applied |-> FALSE, list |-> list, other |-> other] :
             list \in PathLists, other \in PathLists \ {<<>>}}

CallInit == ProgramInit /\ call \in CallRequests

\* the call in both directions of the segment
CallCrossesObstacle ==
    /\ call.fn = "crosses_obstacle" /\ ~call.applied
    /\ call' = [fn |-> call.fn, applied |-> TRUE,
                seg |-> call.seg, obs |-> call.obs, open_sets |-> call.open_sets,
                result |-> crosses_obstacle(call.seg, call.obs, call.open_sets),
                reversed |-> crosses_obstacle(LineSegment(call.seg.end, call.seg.begin),
                                              call.obs, call.open_sets)]
    /\ UNCHANGED programVars

\* the call, and the call on its own result
CallGetGoal ==
    /\ call.fn = "get_goal" /\ ~call.applied
    /\ call' = [fn |-> call.fn, applied |-> TRUE,
                position |-> call.position, obs |-> call.obs,
                result |-> get_goal(call.position, call.obs),
                again |-> get_goal(get_goal(call.position, call.obs), call.obs)]
    /\ UNCHANGED programVars

\* one pass over a crowd, each agent in the cell of its position
CallMinimumDistanceEnforcement ==
    /\ call.fn = "_minimum_distance_enforcement" /\ ~call.applied
    /\ call' = [fn |-> call.fn, applied |-> TRUE, positions |-> call.positions,
                result |-> _minimum_distance_enforcement(
                               call.positions,
                               {<<CellOf(call.positions[i]), i>> : i \in DOMAIN call.positions},
                               MinimalDistance)]
    /\ UNCHANGED programVars

\* path.append(segment) on a Path that holds call.list; bound is what the name path
\* holds afterwards
CallPathAppend ==
    /\ call.fn = "Path.append" /\ ~call.applied
    /\ \E path \in {PathAppend([ok |-> TRUE, list |-> call.list], call.other[1])} :
         call' = [fn |-> call.fn, applied |-> TRUE, list |-> call.list, other |-> call.other,
                  raised |-> IF path.ok THEN "none" ELSE "AssertionError",
                  after |-> path.list,
                  bound |-> "Path"]
    /\ UNCHANGED programVars

\* path += other on a Path that holds call.list
CallPathIadd ==
    /\ call.fn = "Path.__iadd__" /\ ~call.applied
    /\ \E path \in {PathIadd([ok |-> TRUE, list |-> call.list], call.other)} :
         call' = [fn |-> call.fn, applied |-> TRUE, list |-> call.list, other |-> call.other,
                  raised |-> IF path.ok THEN "none" ELSE "AssertionError",
                  after |-> path.list,
                  bound |-> IF path.ok THEN path.returns ELSE "Path"]
    /\ UNCHANGED programVars

\* Planner.create_path for an agent at call.start
CallCreatePath ==
    /\ call.fn = "Planner.create_path" /\ ~call.applied
    /\ \E created \in {LocalCreatePath(call.start, LocalExit, call.obstacles)} :
         call' = [fn |-> call.fn, applied |-> TRUE, start |-> call.start,
                  obstacles |-> call.obstacles,
                  outcome |-> created.outcome, path |-> created.path.list]
    /\ UNCHANGED programVars

\* the first pass of the loop of Planner.create_path up to its call of
\* get_intermediate_goal, which is made when an obstacle is in the way
CallGetIntermediateGoal ==
    /\ call.fn = "get_intermediate_goal" /\ ~call.applied
    /\ \E goal \in {get_goal(call.start, LocalExit)} :
       \E colliding_obstacles \in
             {CollidingObstacles(LineSegment(call.start, goal), call.obstacles)} :
       \E sub_finish \in {get_intermediate_goal(call.start, Angle(PSub(goal, call.start)),
                                                colliding_obstacles)} :
         call' = [fn |-> call.fn, applied |-> TRUE, start |-> call.start,
                  obstacles |-> call.obstacles, goal |-> goal,
                  colliding_obstacles |-> colliding_obstacles,
                  raised |-> IF colliding_obstacles # <<>> /\ ~sub_finish.ok
                             THEN "TypeError" ELSE "none",
                  sub_finish |-> IF colliding_obstacles # <<>> /\ sub_finish.ok
                                 THEN sub_finish.point ELSE goal]
    /\ UNCHANGED programVars

CallNext ==
    \/ CallCreatePath
    \/ CallGetIntermediateGoal
    \/ CallPathAppend
    \/ CallPathIadd
    \/ CallCrossesObstacle
    \/ CallGetGoal
    \/ CallMinimumDistanceEnforcement

CallSpec == CallInit /\ [][CallNext]_vars

(***************************************************************************)
(* Properties                                                              *)
(***************************************************************************)
\* the segment an agent is walking, followed by the segments still to come
RemainingPath(i) == ped_line[i] \o ped_path[i]

\* C1: path contiguity.  For every agent, in every state after planning by either
\* planner and after any number of ticks, every two consecutive segments of its
\* remaining path meet exactly: the end of one is the begin of the next.
PathContiguity ==
    \A i \in DOMAIN ped_line :
        \A k \in 1..(Len(RemainingPath(i)) - 1) :
            RemainingPath(i)[k].end = RemainingPath(i)[k + 1].begin

\* a graph-planned agent with three or more segments to go, after ticks
PathContiguityWitness ==
    /\ pc = "planned" /\ planner = "graph" /\ time >= 2
    /\ \E i \in Agents : Len(RemainingPath(i)) >= 3

\* fractions <<numerator, denominator>> with a positive denominator
FracLess(f, g) == f[1] * g[2] < g[1] * f[2]

\* the parameters t (as an open interval <<low, high>> of fractions) at which the
\* coordinate a + t * delta lies strictly between low_side and high_side
OpenRange(a, delta, low_side, high_side) ==
    IF delta > 0 THEN << <<low_side - a, delta>>, <<high_side - a, delta>> >>
    ELSE IF delta < 0 THEN << <<a - high_side, -delta>>, <<a - low_side, -delta>> >>
    ELSE IF low_side < a /\ a < high_side THEN << <<-1, 1>>, <<2, 1>> >>
    ELSE << <<2, 1>>, <<-1, 1>> >>

\* some point begin + t * (end - begin), 0 <= t <= 1, of the segment lies strictly
\* inside the rectangle of the obstacle
ThroughInterior(seg, obs) ==
    LET ranges == {OpenRange(seg.begin[dim], seg.end[dim] - seg.begin[dim],
                             obs.begin[dim], obs.end[dim]) : dim \in 1..2}
    IN  \A low \in {r[1] : r \in ranges}, high \in {r[2] : r \in ranges} :
           /\ FracLess(low, high)
           /\ FracLess(low, <<1, 1>>)
           /\ FracLess(<<0, 1>>, high)

\* C2: for every agent and every obstacle layout in which the graph planner returns
\* a path, the first segment begins at the agent's spawn position, no segment passes
\* through the interior of an interior obstacle, and the end of the last segment lies
\* on or inside the exit rectangle.
GraphPathSound ==
    planner = "graph" =>
        \A i \in DOMAIN planned_path :
            planned_path[i] # <<>> =>
                /\ planned_path[i][1].begin = origin[i]
                /\ \A k \in DOMAIN planned_path[i], o \in DOMAIN obstacle_list :
                       obstacle_list[o].in_interior =>
                           ~ThroughInterior(planned_path[i][k], obstacle_list[o])
                /\ InObstacle(planned_path[i][Len(planned_path[i])].end, exit_obs)

\* a graph-planned path that goes around an interior obstacle standing between the
\* spawn position and the exit
GraphPathSoundWitness ==
    /\ planner = "graph" /\ pc = "planned"
    /\ \E i \in Agents, o \in DOMAIN obstacle_list :
         /\ obstacle_list[o].in_interior
         /\ Len(planned_path[i]) >= 2
         /\ ThroughInterior(LineSegment(origin[i], get_goal(origin[i], exit_obs)),
                            obstacle_list[o])

\* C3: ticks retire every agent that received a path: an agent is retired the first
\* time it completes its last path segment, so after a tick no alive agent stands at
\* the end of its last segment.
RetiredOnCompletion ==
    \A i \in Agents :
        (/\ pc = "planned" /\ time >= 1
         /\ ped_line[i] # <<>> /\ ped_path[i] = <<>>
         /\ position_array[i] = ped_line[i][1].end)
        => alive_array[i] = 0

\* the scene has been built: construction neither pending nor failed
Constructed == pc \notin {"start", "config_error"}

\* C4: after construction, for every agent count including zero, the status is DONE
\* exactly when no agent is alive.
DoneIffNoneAlive ==
    Constructed => (status = "DONE" <=> SumSeq(alive_array) = 0)

\* C5: the count of alive agents never increases, and no operation sets a cleared
\* alive flag again.
AliveNeverSetAgain ==
    [][Constructed =>
         /\ SumSeq(alive_array') <= SumSeq(alive_array)
         /\ \A i \in DOMAIN alive_array :
                alive_array[i] = 0 => i \in DOMAIN alive_array' /\ alive_array'[i] = 0]_vars

\* ticks run on while one agent has been retired and another is alive
AliveNeverSetAgainWitness ==
    /\ time >= 2
    /\ \E i, j \in Agents : alive_array[i] = 0 /\ alive_array[j] = 1

\* C6: index stability.  The entry at position i of the agent list, agent or
\* placeholder, carries index i, and the list and the position, velocity and alive
\* arrays have as many entries as agents were configured; a retirement shifts,
\* reuses and removes nothing.
IndexStability ==
    Constructed =>
        /\ Len(pedestrian_list) = pedestrian_number
        /\ Len(position_array) = pedestrian_number
        /\ Len(velocity_array) = pedestrian_number
        /\ Len(alive_array) = pedestrian_number
        /\ \A i \in DOMAIN pedestrian_list :
               pedestrian_list[i].index = i /\ pedestrian_list[i].counter = i

\* the first of several agents has been replaced by a placeholder, a later one not
IndexStabilityWitness ==
    /\ pedestrian_number >= 2 /\ time >= 1
    /\ pedestrian_list[1].empty /\ ~pedestrian_list[pedestrian_number].empty

\* the cells whose membership set holds the agent
CellsHolding(i) == {m[1] : m \in {x \in cell_sets : x[2] = i}}

\* C7: once the cells are filled, every alive agent is a member of exactly one cell's
\* membership set, through any sequence of ticks, also those in which a correction
\* of the minimum distance enforcement or a snap moves it into another cell.
OneCellPerAliveAgent ==
    pc \in {"constructed", "planned"} =>
        \A i \in Agents : alive_array[i] = 1 => Cardinality(CellsHolding(i)) = 1

\* with enforcement on, an alive agent has been moved by ticks into another cell
\* than the one it was spawned in
OneCellPerAliveAgentWitness ==
    /\ pc = "planned" /\ mde /\ time >= 1
    /\ \E i \in Agents : alive_array[i] = 1 /\ ped_cell[i] # CellOf(origin[i])

\* the agents whose alive flag this step clears
RetiredNow == {i \in DOMAIN alive_array :
                 alive_array[i] = 1 /\ i \in DOMAIN alive_array' /\ alive_array'[i] = 0}

LastRetiredNow == RetiredNow # {} /\ SumSeq(alive_array') = 0

\* C8 as stated: the step that retires the last alive agent sets the status to DONE
\* and fires every registered finish callback, with no finish() by the driver.
DoneFiresFinish ==
    [][LastRetiredNow =>
         /\ status' = "DONE"
         /\ finish_calls' = finish_calls \o on_finish_functions]_vars

\* C8, amended: the operation that retires the last alive agent sets the status to
\* DONE and fires no finish callback; finish callbacks are fired only by finish(),
\* which the driver calls, every registered one once.
DoneSetFinishSeparate ==
    [][/\ LastRetiredNow => status' = "DONE" /\ finish_calls' = finish_calls
       /\ finish_calls' # finish_calls =>
            /\ ~finished /\ finished'
            /\ alive_array' = alive_array
            /\ finish_calls' = finish_calls \o on_finish_functions]_vars

\* every agent has been retired, a finish callback is registered, none has been fired
DoneSetFinishSeparateWitness ==
    /\ pedestrian_number >= 1 /\ SumSeq(alive_array) = 0 /\ status = "DONE"
    /\ on_finish_functions # <<>> /\ finish_calls = <<>> /\ ~finished

\* the calls this step adds to the exit callbacks' record
NewExitCalls == SubSeq(exit_calls', Len(exit_calls) + 1, Len(exit_calls'))

\* C9: each retirement calls every registered exit callback once, in the order of
\* registration, with the retiring agent itself and not its placeholder, after the
\* agent's alive flag is cleared; no other step calls an exit callback, and no agent
\* is passed to the exit callbacks a second time.
ExitCallbacksOncePerRetirement ==
    [][/\ Len(exit_calls') >= Len(exit_calls)
       /\ SubSeq(exit_calls', 1, Len(exit_calls)) = exit_calls
       /\ \A i \in RetiredNow :
            SelectSeq(NewExitCalls, LAMBDA c : c.pedestrian.counter = i) =
                [k \in 1..Len(on_pedestrian_exit_functions) |->
                    [function |-> on_pedestrian_exit_functions[k],
                     pedestrian |-> NewPedestrian(i), alive |-> 0]]
       /\ \A k \in DOMAIN NewExitCalls :
            /\ NewExitCalls[k].pedestrian.counter \in RetiredNow
            /\ \A j \in DOMAIN exit_calls :
                   exit_calls[j].pedestrian.counter # NewExitCalls[k].pedestrian.counter]_vars

\* two agents have been retired, each passed to the registered exit callback
ExitCallbacksOncePerRetirementWitness ==
    /\ on_pedestrian_exit_functions # <<>>
    /\ \E j, k \in DOMAIN exit_calls :
         exit_calls[j].pedestrian.counter # exit_calls[k].pedestrian.counter

\* the nodes reachable from the nodes seen
RECURSIVE ReachFrom(_, _)
ReachFrom(g, seen) ==
    CHOOSE r \in {IF more = seen THEN seen ELSE ReachFrom(g, more) :
                    more \in {seen \cup UNION {Neighbours(g, n) : n \in seen}}} : TRUE

\* the visibility graph, with the agent's spawn position joined to it, has a route
\* from the spawn position to the exit node
HasRoute(i) ==
    \E g \in {_fill_with_required_edges(PointNode(origin[i]),
                                        AddNode(graph, PointNode(origin[i])),
                                        exit_obs, obstacle_list)} :
        ExitNode \in ReachFrom(g, {PointNode(origin[i])})

\* C10: if the visibility graph has no route from an agent's spawn position to the
\* exit node, the graph planner's path query fails with a routing error; planning
\* never completes leaving an agent without a path: after it every agent has a path
\* of at least one segment and a current target segment.
NoRouteIsAnError ==
    [][planner' = "graph" =>
         /\ (planner = "none" /\ \E i \in Agents : ~HasRoute(i)') =>
                pc' = "plan_failed" /\ err' = "RuntimeError"
         /\ pc' # "plan_failed" =>
                \A i \in Agents : Len(planned_path'[i]) >= 1 /\ Len(ped_line'[i]) = 1]_vars

\* planning stopped with the routing error for an agent whose spawn position has no
\* route to the exit
NoRouteIsAnErrorWitness ==
    /\ planner = "graph" /\ pc = "plan_failed" /\ err = "RuntimeError"
    /\ \E i \in Agents : ~HasRoute(i)

\* the length of the hop between two nodes of an agent's graph: to a point, the
\* distance; to the exit node, the distance to the projection on the exit
HopLength(u, v) ==
    IF v.exit THEN SegLength(LineSegment(u.at, get_goal(u.at, exit_obs)))
    ELSE SegLength(LineSegment(u.at, v.at))

\* the total lengths of all routes without repeated nodes from u to the exit node
RECURSIVE RouteLengths(_, _, _)
RouteLengths(g, u, visited) ==
    IF u = ExitNode THEN {0}
    ELSE UNION {{HopLength(u, v) + rest : rest \in RouteLengths(g, v, visited \cup {v})} :
                  v \in Neighbours(g, u) \ visited}

\* the visibility graph with the agent's spawn position joined to it
PedGraph(i) ==
    _fill_with_required_edges(PointNode(origin[i]), AddNode(graph, PointNode(origin[i])),
                              exit_obs, obstacle_list)

PathLength(list) == SumSeq([k \in DOMAIN list |-> SegLength(list[k])])

\* C11: the path the graph planner returns is optimal: its total length is the least
\* total edge weight over all routes from the agent's node to the exit node in the
\* agent's visibility graph.
GraphPathOptimal ==
    [][(planner = "none" /\ planner' = "graph") =>
         \A i \in Agents :
             planned_path'[i] # <<>> =>
                 \E g \in {PedGraph(i)'} :
                     PathLength(planned_path'[i]) =
                         SetMin(RouteLengths(g, PointNode(origin'[i]), {PointNode(origin'[i])}))]_vars

\* an agent was given a path of two or more segments while its graph holds routes
\* of different lengths
GraphPathOptimalWitness ==
    /\ planner = "graph" /\ pc = "planned"
    /\ \E i \in Agents :
         /\ Len(planned_path[i]) >= 2
         /\ \E g \in {PedGraph(i)} :
              Cardinality(RouteLengths(g, PointNode(origin[i]), {PointNode(origin[i])})) >= 2

(***************************************************************************)
(* Planner.get_goal as a projection                                        *)
(***************************************************************************)
Clamp(lo, hi, x) == Max2(lo, Min2(x, hi))

SquaredDistance(p, q) == (p[1] - q[1]) * (p[1] - q[1]) + (p[2] - q[2]) * (p[2] - q[2])

\* the points of the closed rectangle with whole coordinates
RectanglePoints(obs) == (obs.begin[1]..obs.end[1]) \X (obs.begin[2]..obs.end[2])

\* C12: each coordinate of get_goal's result is the position's coordinate when that
\* lies in the rectangle's closed interval on the axis and the nearer bound of the
\* interval otherwise; the result lies in the closed rectangle, no point of the
\* rectangle is nearer to the position, and projecting the result returns it unchanged
GoalProjection ==
    (call.fn = "get_goal" /\ call.applied) =>
        /\ \A dim \in 1..2 :
              call.result[dim] = Clamp(call.obs.begin[dim], call.obs.end[dim], call.position[dim])
        /\ InObstacle(call.result, call.obs)
        /\ \A q \in RectanglePoints(call.obs) :
              SquaredDistance(call.position, call.result) <= SquaredDistance(call.position, q)
        /\ call.again = call.result

\* the rectangle [10, 20] x [5, 15] and the point (25, 2) give (20, 5)
GoalProjectionWitness ==
    /\ call.fn = "get_goal" /\ call.applied
    /\ call.obs.begin = <<10, 5>> /\ call.obs.end = <<20, 15>>
    /\ call.position = <<25, 2>>
    /\ call.result = <<20, 5>>

(***************************************************************************)
(* LineSegment.crosses_obstacle against the points of segment and          *)
(* rectangle                                                               *)
(***************************************************************************)
FracLessEq(f, g) == f[1] * g[2] <= g[1] * f[2]

\* the parameters t (as a closed interval <<low, high>> of fractions) at which the
\* coordinate a + t * delta lies between low_side and high_side, the sides included
ClosedRange(a, delta, low_side, high_side) ==
    IF delta > 0 THEN << <<low_side - a, delta>>, <<high_side - a, delta>> >>
    ELSE IF delta < 0 THEN << <<a - high_side, -delta>>, <<a - low_side, -delta>> >>
    ELSE IF low_side <= a /\ a <= high_side THEN << <<-1, 1>>, <<2, 1>> >>
    ELSE << <<2, 1>>, <<-1, 1>> >>

\* some point begin + t * (end - begin), 0 <= t <= 1, of the segment lies in the
\* closed rectangle of the obstacle
SharesPoint(seg, obs) ==
    LET ranges == {ClosedRange(seg.begin[dim], seg.end[dim] - seg.begin[dim],
                               obs.begin[dim], obs.end[dim]) : dim \in 1..2}
    IN  \A low \in {r[1] : r \in ranges}, high \in {r[2] : r \in ranges} :
           /\ FracLessEq(low, high)
           /\ FracLessEq(low, <<1, 1>>)
           /\ FracLessEq(<<0, 1>>, high)

CrossingCall == call.fn = "crosses_obstacle" /\ call.applied

Degenerate(seg) == seg.begin = seg.end

AxisParallel(seg) == seg.begin[1] = seg.end[1] \/ seg.begin[2] = seg.end[2]

\* C13: in non-strict mode crosses_obstacle returns true exactly when the segment,
\* of any orientation, axis-parallel and zero-length segments included, shares at
\* least one point with the closed rectangle of the obstacle
CrossingExact ==
    (CrossingCall /\ ~call.open_sets) => (call.result <=> SharesPoint(call.seg, call.obs))

\* an oblique segment that passes a corner of the rectangle at a distance: the
\* bounding boxes overlap, no point is shared and no crossing is reported
CrossingExactWitness ==
    /\ CrossingCall /\ ~call.open_sets
    /\ ~AxisParallel(call.seg)
    /\ BoundingBoxesIntersect(call.seg, call.obs, FALSE)
    /\ ~SharesPoint(call.seg, call.obs)
    /\ ~call.result

\* C14: in strict mode crosses_obstacle reports a crossing only when the segment
\* passes through the open interior of the obstacle; a segment that runs along an
\* edge or passes through exactly one corner, the rest of the rectangle on one side,
\* reports no crossing
StrictOnlyInterior ==
    (CrossingCall /\ call.open_sets /\ call.result) => ThroughInterior(call.seg, call.obs)

\* the bounding box of the segment and the rectangle of the obstacle have no point
\* in common
BoxesApart(seg, obs) ==
    \E dim \in 1..2 :
        \/ seg.begin[dim] < obs.begin[dim] /\ seg.end[dim] < obs.begin[dim]
        \/ seg.begin[dim] > obs.end[dim] /\ seg.end[dim] > obs.end[dim]

StrictlyInside(coord, obs) ==
    \A dim \in 1..2 : obs.begin[dim] < coord[dim] /\ coord[dim] < obs.end[dim]

\* C15: in strict and in non-strict mode, a segment whose bounding box lies fully
\* outside the bounding box of the obstacle reports no crossing, and a segment with
\* both end points strictly inside the obstacle reports a crossing
CrossingBoundaryCases ==
    CrossingCall =>
        /\ BoxesApart(call.seg, call.obs) => ~call.result
        /\ (StrictlyInside(call.seg.begin, call.obs) /\ StrictlyInside(call.seg.end, call.obs))
              => call.result

\* a strict-mode call on a segment between two points strictly inside the obstacle
CrossingBoundaryCasesWitness ==
    /\ CrossingCall /\ call.open_sets
    /\ ~Degenerate(call.seg)
    /\ StrictlyInside(call.seg.begin, call.obs) /\ StrictlyInside(call.seg.end, call.obs)
    /\ call.result

\* C16: for every pair of points, every obstacle and both modes, crosses_obstacle
\* returns the same for the segment from A to B as for the segment from B to A
VisibilitySymmetry ==
    CrossingCall => call.result = call.reversed

\* an oblique segment with all corners of the obstacle on one side: the sign sum is
\* 4 in one direction and -4 in the other
VisibilitySymmetryWitness ==
    /\ CrossingCall /\ ~AxisParallel(call.seg)
    /\ BoundingBoxesIntersect(call.seg, call.obs, call.open_sets)
    /\ SumSeq(CornerSigns(call.seg, call.obs)) = 4
    /\ SumSeq(CornerSigns(LineSegment(call.seg.end, call.seg.begin), call.obs)) = -4
    /\ ~call.result /\ ~call.reversed

(***************************************************************************)
(* Construction                                                            *)
(***************************************************************************)
LayoutNamed(name) == CHOOSE layout \in Layouts : layout.name = name

MdeCall == call.fn = "_minimum_distance_enforcement" /\ call.applied

SumOfPositions(positions) ==
    <<SumSeq([i \in DOMAIN positions |-> positions[i][1]]),
      SumSeq([i \in DOMAIN positions |-> positions[i][2]])>>

\* what the pass added to the position of agent i
Displacement(i) == PSub(call.result[i], call.positions[i])

\* C19: what one enforcement pass adds to one agent of a pair closer than the minimum
\* distance is the negative of what it adds to the other, so the pass leaves the sum
\* of all positions unchanged, for any number of agents and overlapping pairs
MdeAntisymmetric ==
    MdeCall =>
        /\ SumOfPositions(call.result) = SumOfPositions(call.positions)
        /\ Len(call.positions) = 2 =>
              Displacement(1) = <<-Displacement(2)[1], -Displacement(2)[2]>>

\* three agents of one cell, each closer than the minimum distance to both others,
\* and all three displaced
MdeAntisymmetricWitness ==
    /\ MdeCall
    /\ Len(call.positions) = 3
    /\ \A i, j \in 1..3 :
          i # j => /\ CellOf(call.positions[i]) = CellOf(call.positions[j])
                   /\ call.positions[i] # call.positions[j]
                   /\ Norm(PSub(call.positions[i], call.positions[j])) < MinimalDistance
    /\ \A i \in 1..3 : Displacement(i) # <<0, 0>>

(***************************************************************************)
(* Retired agents                                                          *)
(***************************************************************************)
Retired(i) == pedestrian_list[i].empty

GridIndexCurrent ==
    Constructed =>
        cell_dict = _create_cells(<<NumberOfCells, NumberOfCells>>, CellSize, obstacle_list)

(***************************************************************************)
(* Path.append and Path.__iadd__                                           *)
(***************************************************************************)
PathCall == call.fn \in {"Path.append", "Path.__iadd__"} /\ call.applied

\* the list is empty, or what is added begins where the list ends
Joins(list, other) == list = <<>> \/ list[Len(list)].end = other[1].begin

\* C21: an append or a merge onto a non-empty Path of a segment or segment list that
\* does not begin where the Path ends fails with an AssertionError and leaves the
\* list unchanged; a contiguous append or merge succeeds and leaves a usable Path,
\* extended at the back
PathMutationChecked ==
    PathCall =>
        IF Joins(call.list, call.other)
        THEN /\ call.raised = "none"
             /\ call.after = call.list \o call.other
             /\ call.bound = "Path"
        ELSE /\ call.raised = "AssertionError"
             /\ call.after = call.list

(***************************************************************************)
(* The nodes of the visibility graph                                       *)
(***************************************************************************)
\* the corners of the interior, non-permeable obstacles, each moved by its margin
InflatedCorners ==
    {PAdd(obstacle_list[k].corner_list[c], obstacle_list[k].margin_list[c]) :
        <<k, c>> \in {kc \in (1..Len(obstacle_list)) \X (1..4) :
                        obstacle_list[kc[1]].in_interior /\ ~obstacle_list[kc[1]].permeable}}

WithinDomain(point) ==
    \A dim \in 1..2 : 0 <= point[dim] /\ point[dim] <= SceneSize[dim]

\* C22: every node of the visibility graph other than the exit is the corner, moved
\* by its margin, of an interior, non-permeable obstacle and lies within the domain
\* on both axes, not below 0 and not beyond the size of the domain
GraphNodesWithinDomain ==
    planner = "graph" =>
        \A node \in graph.nodes :
            ~node.exit => node.at \in InflatedCorners /\ WithinDomain(node.at)

(***************************************************************************)
(* Segment advance within a tick                                           *)
(***************************************************************************)
\* the tick that is taken leaves agent i, alive before it, within max speed x dt of the
\* end of the segment it was walking, with segments left on its path
ArrivesAtSegmentEnd(i) ==
    /\ pc = "planned"
    /\ time' = time + 1
    /\ alive_array[i] = 1
    /\ ped_path[i] # <<>>
    /\ LET distance == PSub(ped_line[i][1].end, position_array'[i])
           reach == MaxSpeed \div DtDen
       IN  distance[1] * distance[1] + distance[2] * distance[2] < reach * reach

\* C23: a tick in which a live agent comes within max speed x dt of the end of its segment
\* with a non-empty remaining path makes the front segment of that path its target, removes
\* exactly that segment from the path and points its velocity at the new end with the
\* magnitude of its max speed; it stands on the reached end only if that end is accessible
SegmentAdvance ==
    [][\A i \in 1..pedestrian_number :
          ArrivesAtSegmentEnd(i) =>
              /\ ped_line'[i] = <<ped_path[i][1]>>
              /\ ped_path'[i] = Tail(ped_path[i])
              /\ velocity_array'[i] =
                     Rescale(PSub(ped_path[i][1].end, position_array'[i]), MaxSpeed)
              /\ position_array'[i] = ped_line[i][1].end =>
                     is_accessible(ped_line[i][1].end, obstacle_list, FALSE)]_vars

(***************************************************************************)
(* Minimum-distance enforcement is local to a cell                         *)
(***************************************************************************)
\* agents i and j of the call are held by the same cell
SameCell(i, j) == CellOf(call.positions[i]) = CellOf(call.positions[j])

\* agent j of the call is another agent, closer to agent i than the minimum distance
TooClose(i, j) ==
    i # j /\ Norm(PSub(call.positions[i], call.positions[j])) < MinimalDistance

\* the same call without the agents of other cells than that of agent i, each of
\* them put far away
AloneWithCell(i) ==
    _minimum_distance_enforcement(
        [j \in DOMAIN call.positions |->
            IF SameCell(i, j) THEN call.positions[j]
            ELSE <<SceneSize[1] + j * SceneSize[1], SceneSize[2]>>],
        {<<CellOf(call.positions[j]), j>> : j \in DOMAIN call.positions},
        MinimalDistance)

\* C24: one enforcement pass changes the position of an agent only if another agent in
\* the membership set of the same cell is closer to it than the minimum distance; agents
\* of different membership sets get no correction from each other however close they
\* are, and the position of every other agent is unchanged
MdeCellLocal ==
    MdeCall =>
        \A i \in DOMAIN call.positions :
            /\ Displacement(i) # <<0, 0>> =>
                   \E j \in DOMAIN call.positions : SameCell(i, j) /\ TooClose(i, j)
            /\ call.result[i] = AloneWithCell(i)[i]

\* two agents of one cell pushed apart, and a third in the next cell, closer than the
\* minimum distance to one of them, that stays where it was
MdeCellLocalWitness ==
    /\ MdeCall
    /\ Len(call.positions) = 3
    /\ SameCell(1, 2) /\ TooClose(1, 2)
    /\ Displacement(1) # <<0, 0>> /\ Displacement(2) # <<0, 0>>
    /\ ~SameCell(2, 3) /\ TooClose(2, 3)
    /\ Displacement(3) = <<0, 0>>

(***************************************************************************)
(* Cell membership after a tick                                            *)
(***************************************************************************)
\* a tick has run to its end; pedestrian_cells holds the floor of every position
\* divided by the cell size, as update_cells has seen it
Ticked == pc = "planned" /\ time > 0

\* C25: after the cell update of a tick every alive agent whose position is inside the
\* domain is in the set of the cell at the floor of its position divided by the cell size,
\* and its back-reference names that cell, also when it had left the domain in an earlier
\* tick and has come back
MembershipFollowsPosition ==
    Ticked =>
        \A i \in 1..pedestrian_number :
            (alive_array[i] = 1 /\ InCellDict(pedestrian_cells[i])) =>
                /\ <<pedestrian_cells[i], i>> \in cell_sets
                /\ ped_cell[i] = pedestrian_cells[i]

\* an alive agent that stood outside the domain before the tick and is back inside after
\* it, in a cell other than the one it started in and the one its neighbour is in
MembershipFollowsPositionWitness ==
    /\ Ticked
    /\ \E i \in 1..pedestrian_number :
          /\ alive_array[i] = 1
          /\ ~WithinDomain(last_position_array[i])
          /\ InCellDict(pedestrian_cells[i])
          /\ pedestrian_cells[i] # CellOf(origin[i])
          /\ <<pedestrian_cells[i], i>> \in cell_sets
          /\ \E j \in 1..pedestrian_number :
                alive_array[j] = 1 /\ pedestrian_cells[j] # pedestrian_cells[i]

(***************************************************************************)
(* The assertions of Cell.add_pedestrian and Cell.remove_pedestrian        *)
(***************************************************************************)
\* the positions update_cells sees in the tick taken next
NextEnforced ==
    CHOOSE enforced \in
        {IF mde THEN _minimum_distance_enforcement(moved, cell_sets, MinimalDistance)
         ELSE moved : moved \in {MovePositions(position_array, velocity_array)}} : TRUE

\* C29: no sequence of ticks makes update_cells fail the assertion of a duplicate add or
\* of a missing remove, also when the floor-divided location of an agent leaves the grid
\* (pushed out by a minimum-distance correction, say) and later is in the same or another
\* cell again
CellAssertionsHold ==
    /\ pc # "crashed"
    /\ pc = "planned" =>
          update_cells(cell_sets, ped_cell, pedestrian_cells, NextEnforced, alive_array).ok

\* an alive agent whose last location is off the grid and who is still in the set of the
\* cell it left; the next tick brings it back onto the grid
CellAssertionsHoldWitness ==
    /\ Ticked
    /\ mde
    /\ \E i \in 1..pedestrian_number :
          /\ alive_array[i] = 1
          /\ ~InCellDict(pedestrian_cells[i])
          /\ <<ped_cell[i], i>> \in cell_sets
          /\ InCellDict(CellOf(NextEnforced[i]))
          /\ update_cells(cell_sets, ped_cell, pedestrian_cells, NextEnforced,
                          alive_array).cells[i] = CellOf(NextEnforced[i])

(***************************************************************************)
(* The local detour heuristic                                              *)
(***************************************************************************)
CreatePathCall == call.fn = "Planner.create_path" /\ call.applied

\* the sub-goals of the call: where its segments begin, and where the last one ends
SubGoals(path) == [k \in 1..Len(path) |-> path[k].begin] \o <<path[Len(path)].end>>

\* the loop is at a sub-goal it has been at before, so it goes round for ever
GoesRound(path) ==
    path # <<>> /\ \E k, l \in 1..(Len(path) + 1) : k < l /\ SubGoals(path)[k] = SubGoals(path)[l]

\* C26: for every start outside the target rectangle and every obstacle layout the local
\* detour heuristic ends after finitely many sub-goals and returns a path whose last
\* segment ends at the goal projection, inside the target rectangle, and crosses no
\* interior obstacle
LocalPathTerminates ==
    CreatePathCall =>
        /\ call.outcome = "path"
        /\ call.path # <<>>
        /\ LET last == call.path[Len(call.path)]
           IN  /\ InObstacle(last.end, LocalExit)
               /\ last.end = get_goal(last.begin, LocalExit)
               /\ CollidingObstacles(last, call.obstacles) = <<>>

IntermediateGoalCall == call.fn = "get_intermediate_goal" /\ call.applied

\* C30: whenever get_intermediate_goal is given a non-empty list of obstacles that the
\* line to the goal crosses, the side it picks has a corner recorded and it returns a
\* sub-goal, also when all corners are on one side of the bearing or one is exactly on it
IntermediateGoalFound ==
    (IntermediateGoalCall /\ call.colliding_obstacles # <<>>) => call.raised = "none"

(***************************************************************************)
(* The visibility graph is built once and shared                           *)
(***************************************************************************)
\* C27: the visibility graph is built once and used again for every agent: a path query
\* works on a copy, so after any number of queries, ending in a path or in a routing
\* error, the planner's graph has the nodes and edges it had when it was built, and
\* the start node of an agent and its edges are neither in it nor in the query of another
\* agent
GraphBuiltOnce ==
    [][planner' = "graph" =>
          IF planner = "none"
          THEN /\ graph' = _create_obstacle_graph(exit_obs, obstacle_list, SceneSize)
               /\ \A i \in 1..Len(planned_path') :
                     planned_path'[i] # <<>> =>
                         planned_path'[i] \in
                             {q.list : q \in GraphCreatePath(position_array[i], graph',
                                                             exit_obs, obstacle_list)}
          ELSE graph' = graph]_vars

\* two agents have been given a path from starts that are no corner nodes, and the graph
\* holds neither start
GraphBuiltOnceWitness ==
    /\ planner = "graph" /\ pc = "planned"
    /\ pedestrian_number >= 2
    /\ origin[1] # origin[2]
    /\ \A i \in 1..2 : planned_path[i] # <<>> /\ PointNode(origin[i]) \notin graph.nodes
    /\ Len(planned_path[1]) >= 2
    /\ time >= 1

(***************************************************************************)
(* No replanning                                                           *)
(***************************************************************************)
\* the segment agent i walks and the segments it has left are the end of its planned path
TargetsInOrder(i) ==
    \E k \in 1..Len(planned_path[i]) :
        ped_line[i] \o ped_path[i] = SubSeq(planned_path[i], k, Len(planned_path[i]))

\* the step leaves the path of agent i alone, or it is a tick that makes the front segment
\* of the remaining path the target and removes that one segment
ConsumesFront(i) ==
    /\ planned_path'[i] = planned_path[i]
    /\ \/ ped_path'[i] = ped_path[i] /\ ped_line'[i] = ped_line[i]
       \/ /\ time' = time + 1
          /\ ped_path[i] # <<>>
          /\ ped_line'[i] = <<ped_path[i][1]>>
          /\ ped_path'[i] = Tail(ped_path[i])

=============================================================================
